---------------------------- MODULE Spec2Model ----------------------------
(***************************************************************************)
(* Identity chaincode of SSIHyperledger: the credential ledger store       *)
(* (IssueCredential, GetCredential, RevokeCredential) and the proof        *)
(* verification handlers (VerifyProof, VerifyAge, QueryVerifications).     *)
(*                                                                         *)
(* The repository holds two versions of the contract:                      *)
(*   "index" : src/unnamed/part_007  (single-signal VerifyAge, timestamps  *)
(*             taken from the transaction context)                         *)
(*   "lib"   : src/identity-cc/lib/identity.js (three-signal VerifyAge,    *)
(*             timestamps taken from the local clock)                      *)
(* A deployment runs one of them; impl is fixed in the initial state.      *)
(*                                                                         *)
(* The Merkle utilities (src/unnamed/part_006, required by the tests as    *)
(* lib/merkle-utils) run in the client, not in the chaincode; they have    *)
(* their own specification, MerkleSpec.                                    *)
(*                                                                         *)
(* Spec runs one transaction at a time (simulated and committed in one     *)
(* step).  ConcurrentSpec separates the simulation of IssueCredential on   *)
(* an endorsing peer from the commit of its read and write set, as the     *)
(* host does for transactions that are in flight together.                 *)
(*                                                                         *)
(* Strings whose characters the code inspects (signals, hashes, the        *)
(* minimumAge argument) are sequences of one-character strings; opaque     *)
(* strings (user ids, issuer, reason, error messages) are TLA+ strings.    *)
(* The empty string is "" resp. <<>>; an absent argument is modelled as    *)
(* the empty string, which the code treats alike (both are falsy).         *)
(***************************************************************************)
EXTENDS Integers, Sequences, FiniteSets, TLC

VARIABLES
    impl,                  \* which version of the contract is deployed
    ledger,                \* world state: composite key -> stored JSON value
    verificationKeyCache,  \* module variable verificationKeyCache (loaded or null)
    nextTx,                \* transaction id the host gives the next invocation
    last,                  \* the latest invocation: arguments, outcome, events
    poseidonInstance,      \* module variable poseidonInstance of merkle-utils
    mlast,                 \* the latest call of a merkle-utils function
    pending                \* endorsed transactions that are not yet committed

vars ==
    <<impl, ledger, verificationKeyCache, nextTx, last, poseidonInstance, mlast, pending>>

-----------------------------------------------------------------------------
(* Bounds and input universes                                              *)

\* Number of transactions that may commit in one behaviour.
MaxTx == 3

Impls == {"index", "lib"}

\* userID arguments ("" is the missing/empty argument).
UserIDs == {"", "u1"}

\* Two Merkle roots, as decimal strings.
R1 == <<"8", "4">>
R2 == <<"9", "9">>
RootHashes == {R1, R2}

\* credentialHash arguments of IssueCredential.
CredentialHashes == {<<>>} \cup RootHashes

\* (issuer, timestamp) arguments of IssueCredential: given, or both left out.
IssueMeta == {<<"TrustedIssuer", "2024-11-24T00:00:00Z">>, <<"", "">>}

\* reason arguments of RevokeCredential.
Reasons == {"", "fraud"}

\* minimumAge arguments of VerifyAge.
MinimumAges == {<<>>, <<"0">>, <<"1", "8">>, <<"2", "1">>}

\* What snarkjs.groth16.verify does with a parsed payload.
Verdicts == {"true", "false", "throws"}

\* Seconds by which a peer's local clock is ahead of the transaction time.
ClockSkews == {0, 1}

-----------------------------------------------------------------------------
(* JSON values of the public signals                                       *)

Str(s)  == [t |-> "str", v |-> s]
Num(s)  == [t |-> "num", v |-> s]   \* a JSON number, by its decimal literal
Bool(s) == [t |-> "bool", v |-> s]  \* true / false, by its literal

\* A publicSignalsJSON argument: kind "empty" is the empty string, "malformed"
\* does not parse, "value" parses to a non-array value, "array" to an array.
Payload(kind, items) == [kind |-> kind, items |-> items]

IsAdultOnly == Payload("array", <<Str(<<"1">>)>>)

\* Payloads that parse.
ParsedSignals ==
    { Payload("value", <<>>),
      Payload("array", <<>>),
      IsAdultOnly,
      Payload("array", <<Str(<<"0">>)>>),
      Payload("array", <<Str(<<"1">>), Str(R1)>>),
      Payload("array", <<Str(<<"1", "8">>), Str(R1), Str(<<"1">>)>>),
      Payload("array", <<Str(<<"1", "8">>), Str(R1), Str(<<"0">>)>>),
      Payload("array", <<Str(<<"2", "1">>), Str(R1), Str(<<"1">>)>>) }

\* (proofJSON, publicSignalsJSON) arguments of VerifyAge: every parsed
\* payload with a proof object ("proof"), and the payloads that are missing
\* ("") or not JSON ("{bad").
AgePayloads ==
    { <<"proof", p>> : p \in ParsedSignals }
      \cup { <<"", IsAdultOnly>>, <<"{bad", IsAdultOnly>>,
             <<"proof", Payload("empty", <<>>)>>,
             <<"proof", Payload("malformed", <<>>)>> }

\* (proofJSON, publicSignalsJSON) arguments of VerifyProof.
ProofPayloads ==
    { <<"proof", IsAdultOnly>>, <<"", IsAdultOnly>>, <<"{bad", IsAdultOnly>>,
      <<"proof", Payload("empty", <<>>)>>,
      <<"proof", Payload("malformed", <<>>)>> }

-----------------------------------------------------------------------------
(* Numbers and strings as the code reads them                              *)

\* A JavaScript number: NaN, or an integer.
NaN == [nan |-> TRUE, n |-> 0]
Number(n) == [nan |-> FALSE, n |-> n]

Digits == {"0", "1", "2", "3", "4", "5", "6", "7", "8", "9"}

DigitVal(c) ==
    CASE c = "0" -> 0 [] c = "1" -> 1 [] c = "2" -> 2 [] c = "3" -> 3
      [] c = "4" -> 4 [] c = "5" -> 5 [] c = "6" -> 6 [] c = "7" -> 7
      [] c = "8" -> 8 [] c = "9" -> 9

IsDigits(s) == \A i \in 1..Len(s) : s[i] \in Digits

RECURSIVE DecimalValue(_)
DecimalValue(s) ==
    IF s = <<>> THEN 0
    ELSE 10 * DecimalValue(SubSeq(s, 1, Len(s) - 1)) + DigitVal(s[Len(s)])

\* The longest prefix of s made of decimal digits.
RECURSIVE DigitPrefix(_)
DigitPrefix(s) ==
    IF s = <<>> \/ s[1] \notin Digits THEN <<>>
    ELSE <<s[1]>> \o DigitPrefix(Tail(s))

\* parseInt(s, 10), for strings without white space or sign.
parseInt(s) ==
    IF DigitPrefix(s) = <<>> THEN NaN ELSE Number(DecimalValue(DigitPrefix(s)))

\* toNumber(value) for a JSON scalar.  A string goes through BigInt(value),
\* which reads the empty string as 0 and a digit string as its value, and
\* otherwise through Number(value), which is NaN for the other strings of
\* the model (words such as "true" or "x").
toNumber(value) ==
    CASE value.t = "num" -> Number(DecimalValue(value.v))
      [] value.t = "str" ->
            IF IsDigits(value.v) THEN Number(DecimalValue(value.v)) ELSE NaN
      [] OTHER -> NaN

LowerChar(c) ==
    CASE c = "T" -> "t" [] c = "R" -> "r" [] c = "U" -> "u" [] c = "E" -> "e"
      [] OTHER -> c

toLowerCase(s) == [i \in 1..Len(s) |-> LowerChar(s[i])]

TrueLiteral == <<"t", "r", "u", "e">>

\* Faulty variant of toBooleanSignal: the signal tested for truthiness, as in
\* `if (!value)`; every non-empty string, "0" included, is then true.
toBooleanSignalTruthy(value) ==
    CASE value.t = "bool" -> value.v = TrueLiteral
      [] value.t = "num" -> IsDigits(value.v) /\ DecimalValue(value.v) # 0
      [] value.t = "str" -> value.v # <<>>
      [] OTHER -> FALSE

\* toBooleanSignal(value) for a JSON scalar.
toBooleanSignal(value) ==
    CASE value.t = "bool" -> value.v = TrueLiteral
      [] value.t = "num" -> IsDigits(value.v) /\ DecimalValue(value.v) = 1
      [] value.t = "str" -> value.v = <<"1">> \/ toLowerCase(value.v) = TrueLiteral
      [] OTHER -> FALSE

\* new Date(seconds * 1000).toISOString()
toISOString(seconds) == "1970-01-01T00:00:0" \o ToString(seconds) \o ".000Z"

-----------------------------------------------------------------------------
(* The host ledger (ctx.stub) and the outcome of a handler                 *)

\* The transaction context of one invocation.
Ctx(tx, skew) == [txID |-> tx, txTime |-> tx, wall |-> tx + skew]

\* The time a handler stamps on what it writes: part_007 reads the
\* transaction timestamp, identity.js the local clock (new Date()).
Now(im, ctx) ==
    IF im = "index" THEN toISOString(ctx.txTime) ELSE toISOString(ctx.wall)

\* Faulty variant of createCompositeKey: every key is made in the credential
\* namespace.
createCompositeKeyOneNamespace(objectType, attributes) == <<"credential">> \o attributes

\* ctx.stub.createCompositeKey(objectType, attributes)
createCompositeKey(objectType, attributes) == <<objectType>> \o attributes

\* IdentityContract._credentialKey
credentialKey(userID) == createCompositeKey("credential", <<userID>>)

\* ctx.stub.getState(key): the stored value, or nothing.
Exists(ldg, key) == key \in DOMAIN ldg

NoWrites == <<>>
NoEvents == <<>>

\* Faulty variant of Throw: the handler has set an event before it throws
\* and the event reaches the listeners.
ThrowAfterEvent(message, cache) ==
    [ok |-> FALSE, error |-> message, writes |-> <<>>,
     events |-> <<[name |-> "Rejected", payload |-> [error |-> message]]>>,
     ret |-> [none |-> TRUE], cache |-> cache, verifier |-> "not called"]

\* A handler that throws: nothing is written, no event is set.
Throw(message, cache) ==
    [ok |-> FALSE, error |-> message, writes |-> NoWrites, events |-> NoEvents,
     ret |-> [none |-> TRUE], cache |-> cache, verifier |-> "not called"]

\* A handler that returns: its putState calls, its setEvent call, its result.
Return(writes, events, ret, cache) ==
    [ok |-> TRUE, error |-> "", writes |-> writes, events |-> events,
     ret |-> ret, cache |-> cache, verifier |-> "not called"]

\* The same outcome, with what the external verifier answered on the way.
After(v, r) == [r EXCEPT !.verifier = v.verifier, !.cache = v.cache]

Event(name, payload) == [name |-> name, payload |-> payload]

-----------------------------------------------------------------------------
(* Error messages of the handlers (the user id a message quotes left out)  *)

ErrIssueArgs       == "userID and credentialHash are required"
ErrAlreadyExists   == "Credential for user already exists"
ErrUserRequired    == "userID is required"
ErrNoCredential    == "No credential found for user"
ErrPayloadRequired == "proofJSON and publicSignalsJSON are required"
ErrInvalidJSON     == "Invalid JSON for proof or public signals"
ErrKeyUnreadable   == "Unable to read verification key"
ErrSnarkjs         == "snarkjs verification failed"
ErrProofFailed     == "Proof verification failed"
ErrSignalsEmpty    == "Public signals empty"
ErrNotAdult        == "Proof indicates the holder is NOT an adult (isAdult != 1)"
ErrMinAgeRequired  == "minimumAge is required"
ErrMinAgeInvalid   == "minimumAge must be a positive integer"
ErrSignalsShort    == "Public signals must include at least [minimumAge, credentialHash, isOfAgeFlag]"
ErrCircuitMinAge   == "Circuit minimum age signal could not be parsed"
ErrMinAgeMismatch  == "Circuit minimum age does not match requested minimum age"
ErrBelowMinAge     == "Proof indicates the holder does not meet the minimum age requirement"

-----------------------------------------------------------------------------
(* Proof verification shared by VerifyProof and VerifyAge                  *)

\* Faulty variant of getVerificationKey: the file is read on every call.
getVerificationKeyRereads(cache, readable) ==
    IF readable THEN [ok |-> TRUE, cache |-> TRUE]
    ELSE [ok |-> FALSE, cache |-> FALSE]

\* getVerificationKey(): the cached key, or the key read from disk and
\* cached, or an error that leaves the cache empty.
getVerificationKey(cache, readable) ==
    IF cache THEN [ok |-> TRUE, cache |-> TRUE]
    ELSE IF readable THEN [ok |-> TRUE, cache |-> TRUE]
    ELSE [ok |-> FALSE, cache |-> FALSE]

VerifyFailed(message, cache, verifier) ==
    [ok |-> FALSE, error |-> message, valid |-> FALSE,
     publicSignals |-> Payload("value", <<>>), cache |-> cache,
     verifier |-> verifier]

\* Faulty variant of verifyGroth16Payload: the catch block around snarkjs reports an
\* invalid proof instead of throwing.
verifyGroth16PayloadSwallow(cache, proofJSON, publicSignalsJSON, readable, verdict) ==
    IF proofJSON = "" \/ publicSignalsJSON.kind = "empty"
    THEN VerifyFailed(ErrPayloadRequired, cache, "not called")
    ELSE IF proofJSON = "{bad" \/ publicSignalsJSON.kind = "malformed"
    THEN VerifyFailed(ErrInvalidJSON, cache, "not called")
    ELSE LET vKey == getVerificationKey(cache, readable) IN
         IF ~vKey.ok THEN VerifyFailed(ErrKeyUnreadable, vKey.cache, "not called")
         ELSE [ok |-> TRUE, error |-> "", valid |-> (verdict = "true"),
               publicSignals |-> publicSignalsJSON, cache |-> vKey.cache,
               verifier |-> verdict]

\* verifyGroth16Payload(proofJSON, publicSignalsJSON).  verdict is what
\* snarkjs.groth16.verify does if it is reached; verifier tells whether it
\* was, and with what verdict.
verifyGroth16Payload(cache, proofJSON, publicSignalsJSON, readable, verdict) ==
    IF proofJSON = "" \/ publicSignalsJSON.kind = "empty"
    THEN VerifyFailed(ErrPayloadRequired, cache, "not called")
    ELSE IF proofJSON = "{bad" \/ publicSignalsJSON.kind = "malformed"
    THEN VerifyFailed(ErrInvalidJSON, cache, "not called")
    ELSE LET vKey == getVerificationKey(cache, readable) IN
         IF ~vKey.ok THEN VerifyFailed(ErrKeyUnreadable, vKey.cache, "not called")
         ELSE IF verdict = "throws" THEN VerifyFailed(ErrSnarkjs, vKey.cache, verdict)
         ELSE [ok |-> TRUE, error |-> "", valid |-> (verdict = "true"),
               publicSignals |-> publicSignalsJSON, cache |-> vKey.cache,
               verifier |-> verdict]

-----------------------------------------------------------------------------
(* The handlers of IdentityContract.  Each maps the world state, the       *)
(* transaction context and the arguments to what the invocation does.      *)

\* Faulty variant of IssueCredentialReads: the handler writes the credential
\* without having read its key.
IssueCredentialBlind(userID, credentialHash) == {}

\* The keys IssueCredential reads from the world state: the credential key,
\* once the arguments have passed.
IssueCredentialReads(userID, credentialHash) ==
    IF userID = "" \/ credentialHash = <<>> THEN {} ELSE {credentialKey(userID)}

\* Faulty variant of IssueCredential: no check that the holder has a credential.
IssueCredentialOverwrite(im, ldg, cache, ctx, userID, credentialHash, issuer, timestamp) ==
    IF userID = "" \/ credentialHash = <<>> THEN Throw(ErrIssueArgs, cache)
    ELSE LET key == credentialKey(userID)
             data == [credentialHash |-> credentialHash,
                      issuer |-> IF issuer = "" THEN "unknown" ELSE issuer,
                      timestamp |-> IF timestamp = "" THEN Now(im, ctx)
                                    ELSE timestamp,
                      valid |-> TRUE]
         IN Return(key :> data,
                   <<Event("IssueCredential",
                           [userID |-> userID, credentialHash |-> credentialHash])>>,
                   data, cache)

IssueCredential(im, ldg, cache, ctx, userID, credentialHash, issuer, timestamp) ==
    IF userID = "" \/ credentialHash = <<>> THEN Throw(ErrIssueArgs, cache)
    ELSE LET key == credentialKey(userID) IN
         IF Exists(ldg, key) THEN Throw(ErrAlreadyExists, cache)
         ELSE LET data == [credentialHash |-> credentialHash,
                           issuer |-> IF issuer = "" THEN "unknown" ELSE issuer,
                           timestamp |-> IF timestamp = "" THEN Now(im, ctx)
                                         ELSE timestamp,
                           valid |-> TRUE]
              IN Return(key :> data,
                        <<Event("IssueCredential",
                                [userID |-> userID, credentialHash |-> credentialHash])>>,
                        data, cache)

GetCredential(ldg, cache, userID) ==
    IF userID = "" THEN Throw(ErrUserRequired, cache)
    ELSE LET key == credentialKey(userID) IN
         IF ~Exists(ldg, key) THEN Throw(ErrNoCredential, cache)
         ELSE Return(NoWrites, NoEvents, ldg[key], cache)

\* Faulty variant of RevokeCredential: a credential is revoked once, and a
\* second revocation fails.
RevokeCredentialOnce(im, ldg, cache, ctx, userID, reason) ==
    IF userID = "" THEN Throw(ErrUserRequired, cache)
    ELSE LET key == credentialKey(userID) IN
         IF ~Exists(ldg, key) THEN Throw(ErrNoCredential, cache)
         ELSE IF ~ldg[key].valid THEN Throw("Credential is already revoked", cache)
         ELSE LET revoked == [valid |-> FALSE, revokedAt |-> Now(im, ctx)] @@ ldg[key]
                  obj == IF reason # "" THEN [revocationReason |-> reason] @@ revoked
                         ELSE revoked
              IN Return(key :> obj,
                        <<Event("RevokeCredential", [userID |-> userID])>>,
                        obj, cache)

\* Faulty variant of RevokeCredential: the revocation also restamps the
\* credential and names the revoker as its issuer.
RevokeCredentialRestamps(im, ldg, cache, ctx, userID, reason) ==
    IF userID = "" THEN Throw(ErrUserRequired, cache)
    ELSE LET key == credentialKey(userID) IN
         IF ~Exists(ldg, key) THEN Throw(ErrNoCredential, cache)
         ELSE LET revoked == [valid |-> FALSE, revokedAt |-> Now(im, ctx),
                              timestamp |-> Now(im, ctx), issuer |-> "revoker"]
                             @@ ldg[key]
                  obj == IF reason # "" THEN [revocationReason |-> reason] @@ revoked
                         ELSE revoked
              IN Return(key :> obj,
                        <<Event("RevokeCredential", [userID |-> userID])>>,
                        obj, cache)

\* Faulty variant of RevokeCredential: revokedAt is not recorded.
RevokeCredentialNoTimestamp(im, ldg, cache, ctx, userID, reason) ==
    IF userID = "" THEN Throw(ErrUserRequired, cache)
    ELSE LET key == credentialKey(userID) IN
         IF ~Exists(ldg, key) THEN Throw(ErrNoCredential, cache)
         ELSE LET revoked == [valid |-> FALSE] @@ ldg[key]
                  obj == IF reason # "" THEN [revocationReason |-> reason] @@ revoked
                         ELSE revoked
              IN Return(key :> obj,
                        <<Event("RevokeCredential", [userID |-> userID])>>,
                        obj, cache)

\* Faulty variant of RevokeCredential: the reason is not recorded.
RevokeCredentialDropsReason(im, ldg, cache, ctx, userID, reason) ==
    IF userID = "" THEN Throw(ErrUserRequired, cache)
    ELSE LET key == credentialKey(userID) IN
         IF ~Exists(ldg, key) THEN Throw(ErrNoCredential, cache)
         ELSE LET obj == [valid |-> FALSE, revokedAt |-> Now(im, ctx)] @@ ldg[key]
              IN Return(key :> obj,
                        <<Event("RevokeCredential", [userID |-> userID])>>,
                        obj, cache)

RevokeCredential(im, ldg, cache, ctx, userID, reason) ==
    IF userID = "" THEN Throw(ErrUserRequired, cache)
    ELSE LET key == credentialKey(userID) IN
         IF ~Exists(ldg, key) THEN Throw(ErrNoCredential, cache)
         ELSE LET revoked == [valid |-> FALSE, revokedAt |-> Now(im, ctx)] @@ ldg[key]
                  obj == IF reason # "" THEN [revocationReason |-> reason] @@ revoked
                         ELSE revoked
              IN Return(key :> obj,
                        <<Event("RevokeCredential", [userID |-> userID])>>,
                        obj, cache)

\* Faulty variant of VerifyProof: the key of the record leaves out the
\* transaction id.
VerifyProofKeyedByUser(im, ldg, cache, ctx, userID, proofJSON, publicSignalsJSON, readable, verdict) ==
    LET v == verifyGroth16Payload(cache, proofJSON, publicSignalsJSON, readable, verdict) IN
    After(v,
    IF ~v.ok THEN Throw(v.error, v.cache)
    ELSE LET verificationKey == createCompositeKey("verification", <<userID>>)
             record == [userID |-> userID, txID |-> ctx.txID,
                        timestamp |-> Now(im, ctx), valid |-> v.valid,
                        publicSignals |-> v.publicSignals]
         IN Return(verificationKey :> record,
                   <<Event("VerifyProof",
                           [userID |-> userID, txID |-> ctx.txID, valid |-> v.valid])>>,
                   [valid |-> v.valid], v.cache))

\* Faulty variant of VerifyProof: a proof the verifier finds invalid is an
\* error, as in VerifyAge, and no record of the attempt is written.
VerifyProofThrowsOnInvalid(im, ldg, cache, ctx, userID, proofJSON, publicSignalsJSON, readable, verdict) ==
    LET v == verifyGroth16Payload(cache, proofJSON, publicSignalsJSON, readable, verdict) IN
    After(v,
    IF ~v.ok THEN Throw(v.error, v.cache)
    ELSE IF ~v.valid THEN Throw(ErrProofFailed, v.cache)
    ELSE LET verificationKey == createCompositeKey("verification", <<userID, ctx.txID>>)
             record == [userID |-> userID, txID |-> ctx.txID,
                        timestamp |-> Now(im, ctx), valid |-> v.valid,
                        publicSignals |-> v.publicSignals]
         IN Return(verificationKey :> record,
                   <<Event("VerifyProof",
                           [userID |-> userID, txID |-> ctx.txID, valid |-> v.valid])>>,
                   [valid |-> v.valid], v.cache))

VerifyProof(im, ldg, cache, ctx, userID, proofJSON, publicSignalsJSON, readable, verdict) ==
    LET v == verifyGroth16Payload(cache, proofJSON, publicSignalsJSON, readable, verdict) IN
    After(v,
    IF ~v.ok THEN Throw(v.error, v.cache)
    ELSE LET verificationKey == createCompositeKey("verification", <<userID, ctx.txID>>)
             record == [userID |-> userID, txID |-> ctx.txID,
                        timestamp |-> Now(im, ctx), valid |-> v.valid,
                        publicSignals |-> v.publicSignals]
         IN Return(verificationKey :> record,
                   <<Event("VerifyProof",
                           [userID |-> userID, txID |-> ctx.txID, valid |-> v.valid])>>,
                   [valid |-> v.valid], v.cache))

\* Faulty variant of VerifyAgeIndex: the record goes to the namespace of the
\* records of VerifyProof.
VerifyAgeIndexSharedNamespace(ldg, cache, ctx, userID, minimumAge, proofJSON, publicSignalsJSON, readable, verdict) ==
    IF userID = "" THEN Throw(ErrUserRequired, cache)
    ELSE LET v == verifyGroth16Payload(cache, proofJSON, publicSignalsJSON, readable, verdict)
             publicSignals == v.publicSignals
         IN After(v,
         IF ~v.ok THEN Throw(v.error, v.cache)
         ELSE IF ~v.valid THEN Throw(ErrProofFailed, v.cache)
         ELSE IF publicSignals.kind # "array" \/ Len(publicSignals.items) = 0
         THEN Throw(ErrSignalsEmpty, v.cache)
         ELSE IF publicSignals.items[1] # Str(<<"1">>) THEN Throw(ErrNotAdult, v.cache)
         ELSE LET verificationKey ==
                      createCompositeKey("verification", <<userID, ctx.txID>>)
                  record == [userID |-> userID, txID |-> ctx.txID,
                             timestamp |-> Now("index", ctx),
                             minimumAge |-> IF minimumAge = <<>> THEN Num(<<"1", "8">>)
                                            ELSE Str(minimumAge),
                             isOfAge |-> TRUE,
                             publicSignals |-> publicSignals]
              IN Return(verificationKey :> record,
                        <<Event("VerifyAge", [userID |-> userID, isOfAge |-> TRUE])>>,
                        [valid |-> TRUE, isOfAge |-> TRUE], v.cache))

\* Faulty variant of VerifyAgeIndex: a call without minimumAge is rejected.
VerifyAgeIndexChecksAge(ldg, cache, ctx, userID, minimumAge, proofJSON, publicSignalsJSON, readable, verdict) ==
    IF userID = "" THEN Throw(ErrUserRequired, cache)
    ELSE IF minimumAge = <<>> THEN Throw(ErrMinAgeRequired, cache)
    ELSE LET v == verifyGroth16Payload(cache, proofJSON, publicSignalsJSON, readable, verdict)
             publicSignals == v.publicSignals
         IN After(v,
         IF ~v.ok THEN Throw(v.error, v.cache)
         ELSE IF ~v.valid THEN Throw(ErrProofFailed, v.cache)
         ELSE IF publicSignals.kind # "array" \/ Len(publicSignals.items) = 0
         THEN Throw(ErrSignalsEmpty, v.cache)
         ELSE IF publicSignals.items[1] # Str(<<"1">>) THEN Throw(ErrNotAdult, v.cache)
         ELSE LET verificationKey ==
                      createCompositeKey("ageVerification", <<userID, ctx.txID>>)
                  record == [userID |-> userID, txID |-> ctx.txID,
                             timestamp |-> Now("index", ctx),
                             minimumAge |-> IF minimumAge = <<>> THEN Num(<<"1", "8">>)
                                            ELSE Str(minimumAge),
                             isOfAge |-> TRUE,
                             publicSignals |-> publicSignals]
              IN Return(verificationKey :> record,
                        <<Event("VerifyAge", [userID |-> userID, isOfAge |-> TRUE])>>,
                        [valid |-> TRUE, isOfAge |-> TRUE], v.cache))

\* VerifyAge of part_007: one public signal, [isAdult].
VerifyAgeIndex(ldg, cache, ctx, userID, minimumAge, proofJSON, publicSignalsJSON, readable, verdict) ==
    IF userID = "" THEN Throw(ErrUserRequired, cache)
    ELSE LET v == verifyGroth16Payload(cache, proofJSON, publicSignalsJSON, readable, verdict)
             publicSignals == v.publicSignals
         IN After(v,
         IF ~v.ok THEN Throw(v.error, v.cache)
         ELSE IF ~v.valid THEN Throw(ErrProofFailed, v.cache)
         ELSE IF publicSignals.kind # "array" \/ Len(publicSignals.items) = 0
         THEN Throw(ErrSignalsEmpty, v.cache)
         ELSE IF publicSignals.items[1] # Str(<<"1">>) THEN Throw(ErrNotAdult, v.cache)
         ELSE LET verificationKey ==
                      createCompositeKey("ageVerification", <<userID, ctx.txID>>)
                  record == [userID |-> userID, txID |-> ctx.txID,
                             timestamp |-> Now("index", ctx),
                             minimumAge |-> IF minimumAge = <<>> THEN Num(<<"1", "8">>)
                                            ELSE Str(minimumAge),
                             isOfAge |-> TRUE,
                             publicSignals |-> publicSignals]
              IN Return(verificationKey :> record,
                        <<Event("VerifyAge", [userID |-> userID, isOfAge |-> TRUE])>>,
                        [valid |-> TRUE, isOfAge |-> TRUE], v.cache))

\* Faulty variant of VerifyAgeLib: the record goes to the namespace of VerifyProof.
VerifyAgeLibWrongNamespace(ldg, cache, ctx, userID, minimumAge, proofJSON, publicSignalsJSON, readable, verdict) ==
    IF userID = "" THEN Throw(ErrUserRequired, cache)
    ELSE IF minimumAge = <<>> THEN Throw(ErrMinAgeRequired, cache)
    ELSE LET minAgeInt == parseInt(minimumAge) IN
    IF minAgeInt.nan \/ minAgeInt.n <= 0 THEN Throw(ErrMinAgeInvalid, cache)
    ELSE LET v == verifyGroth16Payload(cache, proofJSON, publicSignalsJSON, readable, verdict)
             publicSignals == v.publicSignals
         IN After(v,
         IF ~v.ok THEN Throw(v.error, v.cache)
         ELSE IF ~v.valid THEN Throw(ErrProofFailed, v.cache)
         ELSE IF publicSignals.kind # "array" \/ Len(publicSignals.items) < 3
         THEN Throw(ErrSignalsShort, v.cache)
         ELSE LET circuitMinAge == toNumber(publicSignals.items[1]) IN
         IF circuitMinAge.nan THEN Throw(ErrCircuitMinAge, v.cache)
         ELSE IF circuitMinAge.n # minAgeInt.n THEN Throw(ErrMinAgeMismatch, v.cache)
         ELSE IF ~toBooleanSignal(publicSignals.items[3]) THEN Throw(ErrBelowMinAge, v.cache)
         ELSE LET verificationKey ==
                      createCompositeKey("verification", <<userID, ctx.txID>>)
                  record == [userID |-> userID, txID |-> ctx.txID,
                             timestamp |-> Now("lib", ctx),
                             minimumAge |-> minAgeInt.n,
                             credentialHash |-> publicSignals.items[2],
                             isOfAge |-> TRUE,
                             publicSignals |-> publicSignals]
              IN Return(verificationKey :> record,
                        <<Event("VerifyAge", [userID |-> userID, minimumAge |-> minAgeInt.n])>>,
                        [valid |-> TRUE, minimumAge |-> minAgeInt.n], v.cache))

\* VerifyAge of identity.js: three public signals,
\* [minimumAge, credentialHash, isOfAgeFlag].
VerifyAgeLib(ldg, cache, ctx, userID, minimumAge, proofJSON, publicSignalsJSON, readable, verdict) ==
    IF userID = "" THEN Throw(ErrUserRequired, cache)
    ELSE IF minimumAge = <<>> THEN Throw(ErrMinAgeRequired, cache)
    ELSE LET minAgeInt == parseInt(minimumAge) IN
    IF minAgeInt.nan \/ minAgeInt.n <= 0 THEN Throw(ErrMinAgeInvalid, cache)
    ELSE LET v == verifyGroth16Payload(cache, proofJSON, publicSignalsJSON, readable, verdict)
             publicSignals == v.publicSignals
         IN After(v,
         IF ~v.ok THEN Throw(v.error, v.cache)
         ELSE IF ~v.valid THEN Throw(ErrProofFailed, v.cache)
         ELSE IF publicSignals.kind # "array" \/ Len(publicSignals.items) < 3
         THEN Throw(ErrSignalsShort, v.cache)
         ELSE LET circuitMinAge == toNumber(publicSignals.items[1]) IN
         IF circuitMinAge.nan THEN Throw(ErrCircuitMinAge, v.cache)
         ELSE IF circuitMinAge.n # minAgeInt.n THEN Throw(ErrMinAgeMismatch, v.cache)
         ELSE IF ~toBooleanSignal(publicSignals.items[3]) THEN Throw(ErrBelowMinAge, v.cache)
         ELSE LET verificationKey ==
                      createCompositeKey("ageVerification", <<userID, ctx.txID>>)
                  record == [userID |-> userID, txID |-> ctx.txID,
                             timestamp |-> Now("lib", ctx),
                             minimumAge |-> minAgeInt.n,
                             credentialHash |-> publicSignals.items[2],
                             isOfAge |-> TRUE,
                             publicSignals |-> publicSignals]
              IN Return(verificationKey :> record,
                        <<Event("VerifyAge", [userID |-> userID, minimumAge |-> minAgeInt.n])>>,
                        [valid |-> TRUE, minimumAge |-> minAgeInt.n], v.cache))

\* VerifyAge of the deployed version.  Neither version has a fifth parameter:
\* a root hash sent as fifth transaction argument never reaches the handler.
VerifyAge(im, ldg, cache, ctx, userID, minimumAge, proofJSON, publicSignalsJSON, readable, verdict) ==
    IF im = "index"
    THEN VerifyAgeIndex(ldg, cache, ctx, userID, minimumAge, proofJSON, publicSignalsJSON, readable, verdict)
    ELSE VerifyAgeLib(ldg, cache, ctx, userID, minimumAge, proofJSON, publicSignalsJSON, readable, verdict)

\* Faulty variant of QueryVerifications: the iterator matches the object
\* type as a suffix, so the records of VerifyAge are returned too.
QueryVerificationsBySuffix(ldg, cache) ==
    Return(NoWrites, NoEvents,
           {ldg[k] : k \in {kk \in DOMAIN ldg :
                               kk[1] \in {"verification", "ageVerification"}}},
           cache)

QueryVerifications(ldg, cache) ==
    Return(NoWrites, NoEvents,
           {ldg[k] : k \in {kk \in DOMAIN ldg : kk[1] = "verification"}}, cache)

-----------------------------------------------------------------------------
(* merkle-utils (src/unnamed/part_006): field elements and the hash        *)
(*                                                                         *)
(* A BigInt is the big-endian sequence of its base-256 digits without      *)
(* leading zeros (0n is the empty sequence), so that the integers of the   *)
(* 31-byte encoding keep their size.  A field element is such an integer   *)
(* or a Poseidon output.  Poseidon is not part of the repository: an       *)
(* output is the term of its inputs, which makes the hash collision free.  *)
(* Values that reach the hash are not reduced modulo the field size.       *)

\* Bytes of a string taken by valueToFieldElement.
maxBytes == 31

\* Radix of the byte encoding.
Radix == 256

RECURSIVE ToBytes(_)
ToBytes(n) == IF n = 0 THEN <<>> ELSE Append(ToBytes(n \div Radix), n % Radix)

RECURSIVE StripZeros(_)
StripZeros(bytes) ==
    IF bytes # <<>> /\ bytes[1] = 0 THEN StripZeros(Tail(bytes)) ELSE bytes

\* The field elements.
IntFE(bytes) == [k |-> "int", b |-> bytes]
Poseidon1(x) == [k |-> "poseidon1", x |-> x]
Poseidon2(l, r) == [k |-> "poseidon2", l |-> l, r |-> r]

\* poseidon.F.toString(hash), BigInt.prototype.toString(): the canonical
\* decimal string of a field element, kept as the element it spells.
FeString(fe) == [t |-> "fe", v |-> fe]

\* BigInt(value) for a string or number: a canonical string spells its
\* element, a string of digits the integer it denotes, the empty string 0n;
\* any other string is a SyntaxError.
CanBigInt(value) ==
    \/ value.t = "fe"
    \/ value.t \in {"str", "num"} /\ IsDigits(value.v)

BigInt(value) ==
    IF value.t = "fe" THEN value.v ELSE IntFE(ToBytes(DecimalValue(value.v)))

\* TextEncoder.encode of one character (UTF-8); "U+00E9" is the two-byte
\* character e with acute accent.
Utf8(c) ==
    CASE c \in Digits -> <<48 + DigitVal(c)>>
      [] c = "a" -> <<97>>
      [] c = "b" -> <<98>>
      [] c = "c" -> <<99>>
      [] c = "U+00E9" -> <<195, 169>>

RECURSIVE encode(_)
encode(s) == IF s = <<>> THEN <<>> ELSE Utf8(s[1]) \o encode(Tail(s))

Min(a, b) == IF a <= b THEN a ELSE b

\* Faulty variant of valueToFieldElement: the bytes are read least
\* significant byte first.
valueToFieldElementLittleEndian(value) ==
    CASE value.t = "fe" -> [ok |-> TRUE, fe |-> value.v]
      [] value.t = "num" -> [ok |-> TRUE, fe |-> BigInt(value)]
      [] value.t = "str" ->
            IF value.v # <<>> /\ IsDigits(value.v)
            THEN [ok |-> TRUE, fe |-> BigInt(value)]
            ELSE LET bytes == encode(value.v)
                     taken == SubSeq(bytes, 1, Min(Len(bytes), maxBytes))
                     rev == [i \in 1..Len(taken) |-> taken[Len(taken) + 1 - i]]
                 IN [ok |-> TRUE, fe |-> IntFE(StripZeros(rev))]
      [] OTHER -> [ok |-> FALSE, fe |-> IntFE(<<>>)]

\* valueToFieldElement(value).  A canonical string ("fe") is a string of
\* digits.  The loop result = result * 256n + BigInt(bytes[i]) over the first
\* maxBytes bytes leaves those bytes as the base-256 digits of the result.
valueToFieldElement(value) ==
    CASE value.t = "fe" -> [ok |-> TRUE, fe |-> value.v]
      [] value.t = "num" -> [ok |-> TRUE, fe |-> BigInt(value)]
      [] value.t = "str" ->
            IF value.v # <<>> /\ IsDigits(value.v)
            THEN [ok |-> TRUE, fe |-> BigInt(value)]
            ELSE LET bytes == encode(value.v)
                     taken == SubSeq(bytes, 1, Min(Len(bytes), maxBytes))
                 IN [ok |-> TRUE, fe |-> IntFE(StripZeros(taken))]
      [] OTHER -> [ok |-> FALSE, fe |-> IntFE(<<>>)]

-----------------------------------------------------------------------------
(* merkle-utils: the shared Poseidon instance and the hash functions       *)

\* poseidonInstance before the first use, and what buildPoseidon() gives.
Null == "null"
buildPoseidon == "poseidon"

\* Faulty variant of getPoseidon: the instance is stored but the variable
\* read before the assignment is what the first caller gets.
getPoseidonBeforeBuild(inst) == [use |-> inst, cache |-> buildPoseidon]

\* getPoseidon(): the instance a caller gets (use) and the one kept (cache).
getPoseidon(inst) ==
    IF inst = Null THEN [use |-> buildPoseidon, cache |-> buildPoseidon]
    ELSE [use |-> inst, cache |-> inst]

\* Outcome of a utility function: thrown error or returned value, and the
\* shared instance it leaves behind.
MThrow(message, inst) ==
    [ok |-> FALSE, error |-> message, ret |-> [none |-> TRUE], poseidonInstance |-> inst]
MReturn(ret, inst) ==
    [ok |-> TRUE, error |-> "", ret |-> ret, poseidonInstance |-> inst]

ErrNotAFunction   == "poseidon is not a function"
ErrCannotConvert  == "Cannot convert value to field element"
ErrSyntaxBigInt   == "Cannot convert to a BigInt"
ErrEmptyLeaves    == "Cannot build Merkle tree from empty leaves"
ErrInvalidTree    == "Invalid tree object"
ErrLeafIndex      == "Leaf index out of bounds"
ErrProofStructure == "Invalid proof structure"
ErrFieldsRequired == "fields and fieldOrder are required"
ErrFieldNotFound  == "Field not found in credential fields"

\* Faulty variant of poseidonHash2: only the left input reaches the hash.
poseidonHash2LeftOnly(left, right) ==
    FeString(Poseidon1(valueToFieldElement(left).fe))

\* poseidonHash(value) and poseidonHash2(left, right), for values that
\* valueToFieldElement converts, with an instance that is built.
poseidonHash(value) == FeString(Poseidon1(valueToFieldElement(value).fe))

poseidonHash2(left, right) ==
    FeString(Poseidon2(valueToFieldElement(left).fe, valueToFieldElement(right).fe))

\* computeLeafHash(fieldValue, salt): salt is "0" when left out.
computeLeafHash(fieldValue, salt) ==
    IF BigInt(salt) # IntFE(<<>>) THEN poseidonHash2(fieldValue, salt)
    ELSE poseidonHash(fieldValue)

NoSalt == Num(<<"0">>)

-----------------------------------------------------------------------------
(* merkle-utils: tree, proof, verification                                 *)

\* Element i of a JavaScript array (indices from 0).
At(array, i) == array[i + 1]

\* Faulty variant of NextLayer: an unpaired last node moves up unhashed.
NextLayerCarry(currentLayer) ==
    [j \in 1..((Len(currentLayer) + 1) \div 2) |->
        LET i == 2 * (j - 1)
            left == At(currentLayer, i)
        IN IF i + 1 < Len(currentLayer)
           THEN FeString(Poseidon2(valueToFieldElement(left).fe,
                                   valueToFieldElement(At(currentLayer, i + 1)).fe))
           ELSE left]

\* Faulty variant of NextLayer: a missing right child is replaced by zero.
NextLayerZeroPad(currentLayer) ==
    [j \in 1..((Len(currentLayer) + 1) \div 2) |->
        LET i == 2 * (j - 1)
            left == At(currentLayer, i)
            right == IF i + 1 < Len(currentLayer) THEN At(currentLayer, i + 1)
                     ELSE FeString(IntFE(<<>>))
        IN FeString(Poseidon2(valueToFieldElement(left).fe,
                              valueToFieldElement(right).fe))]

\* One pass of the for loop of buildMerkleTree over currentLayer.
NextLayer(currentLayer) ==
    [j \in 1..((Len(currentLayer) + 1) \div 2) |->
        LET i == 2 * (j - 1)
            left == At(currentLayer, i)
            right == IF i + 1 < Len(currentLayer) THEN At(currentLayer, i + 1)
                     ELSE left
        IN poseidonHash2(left, right)]

\* The while loop of buildMerkleTree: the layers from currentLayer upwards.
RECURSIVE BuildLayers(_)
BuildLayers(currentLayer) ==
    IF Len(currentLayer) > 1
    THEN <<currentLayer>> \o BuildLayers(NextLayer(currentLayer))
    ELSE <<currentLayer>>

buildMerkleTree(inst, leaves) ==
    IF Len(leaves) = 0 THEN MThrow(ErrEmptyLeaves, inst)
    ELSE IF \E i \in 1..Len(leaves) : ~CanBigInt(leaves[i])
    THEN MThrow(ErrSyntaxBigInt, inst)
    ELSE LET currentLayer == [i \in 1..Len(leaves) |-> FeString(BigInt(leaves[i]))]
             poseidon == getPoseidon(inst)
         IN IF Len(currentLayer) = 1
            THEN MReturn([layers |-> <<currentLayer>>, root |-> currentLayer[1]], inst)
            ELSE IF poseidon.use = Null THEN MThrow(ErrNotAFunction, poseidon.cache)
            ELSE LET layers == BuildLayers(currentLayer)
                 IN MReturn([layers |-> layers, root |-> layers[Len(layers)][1]],
                            poseidon.cache)

\* A tree object without layers, as a caller may pass.
NoTree == [layers |-> <<>>, root |-> FeString(IntFE(<<>>))]

\* getRootHash(tree): a root of "0" is not tested (it is a non-empty string).
getRootHash(inst, tree) ==
    IF tree.layers = <<>> THEN MThrow(ErrInvalidTree, inst) ELSE MReturn(tree.root, inst)

\* Faulty variant of ProofSteps: the parent index is rounded up.
RECURSIVE ProofStepsParentRoundedUp(_, _, _)
ProofStepsParentRoundedUp(layers, level, currentIndex) ==
    IF level < Len(layers) - 1
    THEN LET currentLayer == At(layers, level)
             isLeftChild == currentIndex % 2 = 0
             siblingIndex == IF isLeftChild THEN currentIndex + 1 ELSE currentIndex - 1
             sibling == IF siblingIndex < Len(currentLayer)
                        THEN At(currentLayer, siblingIndex)
                        ELSE At(currentLayer, currentIndex)
         IN <<[sibling |-> sibling, index |-> IF isLeftChild THEN 0 ELSE 1]>>
              \o ProofStepsParentRoundedUp(layers, level + 1, (currentIndex + 1) \div 2)
    ELSE <<>>

\* Faulty variant of ProofSteps: the path index says right for a left child.
RECURSIVE ProofStepsSwappedIndex(_, _, _)
ProofStepsSwappedIndex(layers, level, currentIndex) ==
    IF level < Len(layers) - 1
    THEN LET currentLayer == At(layers, level)
             isLeftChild == currentIndex % 2 = 0
             siblingIndex == IF isLeftChild THEN currentIndex + 1 ELSE currentIndex - 1
             sibling == IF siblingIndex < Len(currentLayer)
                        THEN At(currentLayer, siblingIndex)
                        ELSE At(currentLayer, currentIndex)
         IN <<[sibling |-> sibling, index |-> IF isLeftChild THEN 1 ELSE 0]>>
              \o ProofStepsSwappedIndex(layers, level + 1, currentIndex \div 2)
    ELSE <<>>

\* Faulty variant of ProofSteps: the loop runs through the root layer too.
RECURSIVE ProofStepsThroughRoot(_, _, _)
ProofStepsThroughRoot(layers, level, currentIndex) ==
    IF level < Len(layers)
    THEN LET currentLayer == At(layers, level)
             isLeftChild == currentIndex % 2 = 0
             siblingIndex == IF isLeftChild THEN currentIndex + 1 ELSE currentIndex - 1
             sibling == IF siblingIndex < Len(currentLayer)
                        THEN At(currentLayer, siblingIndex)
                        ELSE At(currentLayer, currentIndex)
         IN <<[sibling |-> sibling, index |-> IF isLeftChild THEN 0 ELSE 1]>>
              \o ProofStepsThroughRoot(layers, level + 1, currentIndex \div 2)
    ELSE <<>>

\* Faulty variant of ProofSteps: a missing sibling is recorded as zero.
RECURSIVE ProofStepsZeroSibling(_, _, _)
ProofStepsZeroSibling(layers, level, currentIndex) ==
    IF level < Len(layers) - 1
    THEN LET currentLayer == At(layers, level)
             isLeftChild == currentIndex % 2 = 0
             siblingIndex == IF isLeftChild THEN currentIndex + 1 ELSE currentIndex - 1
             sibling == IF siblingIndex < Len(currentLayer)
                        THEN At(currentLayer, siblingIndex)
                        ELSE FeString(IntFE(<<>>))
         IN <<[sibling |-> sibling, index |-> IF isLeftChild THEN 0 ELSE 1]>>
              \o ProofStepsZeroSibling(layers, level + 1, currentIndex \div 2)
    ELSE <<>>

\* The for loop of generateMerkleProof from level upwards: the pairs
\* (sibling, path index).
RECURSIVE ProofSteps(_, _, _)
ProofSteps(layers, level, currentIndex) ==
    IF level < Len(layers) - 1
    THEN LET currentLayer == At(layers, level)
             isLeftChild == currentIndex % 2 = 0
             siblingIndex == IF isLeftChild THEN currentIndex + 1 ELSE currentIndex - 1
             sibling == IF siblingIndex < Len(currentLayer)
                        THEN At(currentLayer, siblingIndex)
                        ELSE At(currentLayer, currentIndex)
         IN <<[sibling |-> sibling, index |-> IF isLeftChild THEN 0 ELSE 1]>>
              \o ProofSteps(layers, level + 1, currentIndex \div 2)
    ELSE <<>>

generateMerkleProof(inst, tree, leafIndex) ==
    IF Len(tree.layers) = 0 THEN MThrow(ErrInvalidTree, inst)
    ELSE LET leaves == At(tree.layers, 0) IN
         IF leafIndex < 0 \/ leafIndex >= Len(leaves) THEN MThrow(ErrLeafIndex, inst)
         ELSE LET steps == ProofSteps(tree.layers, 0, leafIndex)
              IN MReturn([pathElements |-> [i \in 1..Len(steps) |-> steps[i].sibling],
                          pathIndices |-> [i \in 1..Len(steps) |-> steps[i].index]],
                         inst)

\* Faulty variant of Replay: the running hash goes to the left where the
\* path index is 1.
RECURSIVE ReplayWrongSide(_, _, _, _)
ReplayWrongSide(currentHash, pathElements, pathIndices, i) ==
    IF i < Len(pathElements)
    THEN LET sibling == FeString(BigInt(At(pathElements, i)))
             isLeftChild == At(pathIndices, i) = 1
         IN ReplayWrongSide(IF isLeftChild THEN poseidonHash2(currentHash, sibling)
                            ELSE poseidonHash2(sibling, currentHash),
                            pathElements, pathIndices, i + 1)
    ELSE currentHash

\* The for loop of verifyMerkleProof from step i on.
RECURSIVE Replay(_, _, _, _)
Replay(currentHash, pathElements, pathIndices, i) ==
    IF i < Len(pathElements)
    THEN LET sibling == FeString(BigInt(At(pathElements, i)))
             isLeftChild == At(pathIndices, i) = 0
         IN Replay(IF isLeftChild THEN poseidonHash2(currentHash, sibling)
                   ELSE poseidonHash2(sibling, currentHash),
                   pathElements, pathIndices, i + 1)
    ELSE currentHash

verifyMerkleProof(inst, leaf, proof, root) ==
    LET pathElements == proof.pathElements
        pathIndices == proof.pathIndices
    IN IF Len(pathElements) # Len(pathIndices) THEN MThrow(ErrProofStructure, inst)
       ELSE IF ~CanBigInt(leaf) THEN MThrow(ErrSyntaxBigInt, inst)
       ELSE IF Len(pathElements) = 0
       THEN IF ~CanBigInt(root) THEN MThrow(ErrSyntaxBigInt, inst)
            ELSE MReturn(FeString(BigInt(leaf)) = FeString(BigInt(root)), inst)
       ELSE IF ~CanBigInt(At(pathElements, 0)) THEN MThrow(ErrSyntaxBigInt, inst)
       ELSE LET poseidon == getPoseidon(inst) IN
            IF poseidon.use = Null THEN MThrow(ErrNotAFunction, poseidon.cache)
            ELSE IF \E i \in 1..Len(pathElements) : ~CanBigInt(pathElements[i])
                    \/ ~CanBigInt(root)
            THEN MThrow(ErrSyntaxBigInt, poseidon.cache)
            ELSE MReturn(Replay(FeString(BigInt(leaf)), pathElements, pathIndices, 0)
                            = FeString(BigInt(root)),
                         poseidon.cache)

\* The for loop of computeCredentialRoot: the first field of fieldOrder, from
\* position i on, that stops it (0 if none does).
RECURSIVE FirstFailing(_, _, _)
FirstFailing(fields, fieldOrder, i) ==
    IF i > Len(fieldOrder) THEN 0
    ELSE IF fieldOrder[i] \notin DOMAIN fields THEN i
    ELSE IF ~valueToFieldElement(fields[fieldOrder[i]]).ok THEN i
    ELSE FirstFailing(fields, fieldOrder, i + 1)

\* Faulty variant of computeCredentialRoot: the leaves are pushed in the
\* reverse of the order of fieldOrder.
computeCredentialRootReversed(inst, fields, fieldOrder) ==
    IF Len(fieldOrder) = 0 THEN MThrow(ErrFieldsRequired, inst)
    ELSE LET bad == FirstFailing(fields, fieldOrder, 1)
             poseidon == getPoseidon(inst)
         IN IF fieldOrder[1] \notin DOMAIN fields THEN MThrow(ErrFieldNotFound, inst)
            ELSE IF poseidon.use = Null THEN MThrow(ErrNotAFunction, poseidon.cache)
            ELSE IF bad # 0
            THEN MThrow(IF fieldOrder[bad] \notin DOMAIN fields THEN ErrFieldNotFound
                        ELSE ErrCannotConvert, poseidon.cache)
            ELSE LET leaves == [i \in 1..Len(fieldOrder) |->
                                   computeLeafHash(
                                       fields[fieldOrder[Len(fieldOrder) + 1 - i]], NoSalt)]
                     built == buildMerkleTree(poseidon.cache, leaves)
                 IN MReturn([rootHash |-> built.ret.root, tree |-> built.ret,
                             leaves |-> leaves], built.poseidonInstance)

\* computeCredentialRoot(fields, fieldOrder).  poseidonHash asks for the
\* instance before it converts the value, so that the instance is built as
\* soon as the first listed field is found.
computeCredentialRoot(inst, fields, fieldOrder) ==
    IF Len(fieldOrder) = 0 THEN MThrow(ErrFieldsRequired, inst)
    ELSE LET bad == FirstFailing(fields, fieldOrder, 1)
             poseidon == getPoseidon(inst)
         IN IF fieldOrder[1] \notin DOMAIN fields THEN MThrow(ErrFieldNotFound, inst)
            ELSE IF poseidon.use = Null THEN MThrow(ErrNotAFunction, poseidon.cache)
            ELSE IF bad # 0
            THEN MThrow(IF fieldOrder[bad] \notin DOMAIN fields THEN ErrFieldNotFound
                        ELSE ErrCannotConvert, poseidon.cache)
            ELSE LET leaves == [i \in 1..Len(fieldOrder) |->
                                   computeLeafHash(fields[fieldOrder[i]], NoSalt)]
                     built == buildMerkleTree(poseidon.cache, leaves)
                 IN MReturn([rootHash |-> built.ret.root, tree |-> built.ret,
                             leaves |-> leaves], built.poseidonInstance)

-----------------------------------------------------------------------------
(* merkle-utils: inputs of the calls                                       *)

\* Largest number of leaves of a tree.
MaxLeaves == 5

\* Leaves as callers spell them: a canonical decimal string, the same number
\* with a leading zero, the output of computeLeafHash.
LeafValues ==
    { Str(<<"5">>), Str(<<"0", "5">>), FeString(Poseidon1(IntFE(<<7>>))) }

\* The leaves that trees are built from.
TreeLeafValues == { Str(<<"0", "5">>), FeString(Poseidon1(IntFE(<<7>>))) }

RECURSIVE SeqsUpTo(_, _)
SeqsUpTo(S, n) ==
    IF n = 0 THEN {<<>>}
    ELSE LET shorter == SeqsUpTo(S, n - 1)
         IN shorter \cup {Append(q, x) : q \in {r \in shorter : Len(r) = n - 1}, x \in S}

\* leaves arguments: every sequence of at most MaxLeaves leaves, and one
\* with a leaf that is not a number.
LeafSeqs ==
    SeqsUpTo(TreeLeafValues, MaxLeaves) \cup {<<Str(<<"0", "5">>), Str(<<"a">>)>>}

\* n times the character c.
Repeat(c, n) == [i \in 1..n |-> c]

\* Attribute values: strings of digits, text, text longer than maxBytes
\* bytes (two that differ only in byte 32, one whose byte 31 is the first
\* byte of a two-byte character), and a boolean.
AttributeValues ==
    { Str(<<"7">>), Str(<<"0", "7">>), Str(<<"a">>), Str(<<"9", "7">>),
      Str(Repeat("a", maxBytes) \o <<"b">>), Str(Repeat("a", maxBytes) \o <<"c">>),
      Str(Repeat("a", maxBytes - 1) \o <<"U+00E9">>),
      Bool(TrueLiteral) }

FieldNames == {"dob", "name"}

\* fields arguments: both attributes, or dob alone.
AttributeMaps ==
    [FieldNames -> AttributeValues] \cup [{"dob"} -> AttributeValues]

FieldOrders ==
    { <<>>, <<"dob">>, <<"dob", "name">>, <<"name", "dob">>,
      <<"dob", "name", "dob">>, <<"dob", "dob", "name">> }

NoMerkleCall ==
    [op |-> "none", args |-> [none |-> TRUE], ok |-> TRUE, error |-> "",
     ret |-> [none |-> TRUE]]

-----------------------------------------------------------------------------
(* The state machine: one action per transaction function                  *)

NoCall ==
    [op |-> "none", userID |-> "", txID |-> 0, args |-> [none |-> TRUE],
     verifier |-> "not called", ok |-> TRUE, error |-> "", events |-> NoEvents,
     ret |-> [none |-> TRUE]]

Init ==
    /\ impl \in Impls
    /\ ledger = [k \in {} |-> 0]
    /\ verificationKeyCache = FALSE
    /\ nextTx = 1
    /\ last = NoCall
    /\ poseidonInstance = Null
    /\ mlast = NoMerkleCall
    /\ pending = {}

\* The host is free for the next transaction.
Idle == last.op = "none" /\ nextTx <= MaxTx

\* The host runs the handler and commits its writes if it returned; the
\* writes of a handler that threw are discarded.  The key cache is memory of
\* the chaincode process and keeps what the handler left in it either way.
Invoke(op, userID, args, verifier, r) ==
    /\ ledger' = IF r.ok THEN r.writes @@ ledger ELSE ledger
    /\ verificationKeyCache' = r.cache
    /\ nextTx' = IF r.ok /\ DOMAIN r.writes # {} THEN nextTx + 1 ELSE nextTx
    /\ last' = [op |-> op, userID |-> userID, txID |-> nextTx, args |-> args,
                verifier |-> verifier, ok |-> r.ok, error |-> r.error,
                events |-> r.events, ret |-> r.ret]
    /\ UNCHANGED <<impl, poseidonInstance, mlast, pending>>

\* The local clocks a peer may have: only identity.js reads the local clock.
Skews == IF impl = "index" THEN {0} ELSE ClockSkews

\* Whether verification_key.json can be read, asked only while it is not cached.
KeyReadable == IF verificationKeyCache THEN {TRUE} ELSE BOOLEAN

\* What snarkjs does, asked only for payloads that reach it.
VerdictsFor(pp) ==
    IF pp[1] = "proof" /\ pp[2] \in ParsedSignals THEN Verdicts ELSE {"false"}

DoIssueCredential ==
    /\ Idle
    /\ \E userID \in UserIDs, credentialHash \in CredentialHashes, meta \in IssueMeta,
          skew \in Skews :
           Invoke("IssueCredential", userID,
                  [credentialHash |-> credentialHash, issuer |-> meta[1],
                   timestamp |-> meta[2]],
                  "not called",
                  IssueCredential(impl, ledger, verificationKeyCache, Ctx(nextTx, skew),
                                  userID, credentialHash, meta[1], meta[2]))

DoGetCredential ==
    /\ Idle
    /\ \E userID \in UserIDs :
           Invoke("GetCredential", userID, [none |-> TRUE], "not called",
                  GetCredential(ledger, verificationKeyCache, userID))

DoRevokeCredential ==
    /\ Idle
    /\ \E userID \in UserIDs, reason \in Reasons, skew \in Skews :
           Invoke("RevokeCredential", userID, [reason |-> reason], "not called",
                  RevokeCredential(impl, ledger, verificationKeyCache, Ctx(nextTx, skew),
                                   userID, reason))

\* createCompositeKey of the host rejects an empty attribute, so VerifyProof,
\* which does not look at userID itself, is invoked with a user id.
DoVerifyProof ==
    /\ Idle
    /\ \E userID \in UserIDs \ {""}, pp \in ProofPayloads, readable \in KeyReadable,
          skew \in Skews :
         \E verdict \in VerdictsFor(pp) :
           LET r == VerifyProof(impl, ledger, verificationKeyCache, Ctx(nextTx, skew),
                                userID, pp[1], pp[2], readable, verdict)
           IN Invoke("VerifyProof", userID, [publicSignalsJSON |-> pp[2]],
                     r.verifier, r)

\* rootHash is the fifth transaction argument the test scripts and the
\* integration guide send; last records it as sent.
DoVerifyAge ==
    /\ Idle
    /\ \E userID \in UserIDs, minimumAge \in MinimumAges, pp \in AgePayloads,
          rootHash \in RootHashes, readable \in KeyReadable, skew \in Skews :
         \E verdict \in VerdictsFor(pp) :
           LET r == VerifyAge(impl, ledger, verificationKeyCache, Ctx(nextTx, skew),
                              userID, minimumAge, pp[1], pp[2], readable, verdict)
           IN Invoke("VerifyAge", userID,
                     [minimumAge |-> minimumAge, publicSignalsJSON |-> pp[2],
                      rootHash |-> rootHash],
                     r.verifier, r)

DoQueryVerifications ==
    /\ Idle
    /\ Invoke("QueryVerifications", "", [none |-> TRUE], "not called",
              QueryVerifications(ledger, verificationKeyCache))

\* The response of the latest invocation has gone to the client.
ReturnToClient ==
    /\ last.op # "none"
    /\ last' = NoCall
    /\ UNCHANGED <<impl, ledger, verificationKeyCache, nextTx, poseidonInstance, mlast,
                   pending>>

Next ==
    \/ DoIssueCredential
    \/ DoGetCredential
    \/ DoRevokeCredential
    \/ DoVerifyProof
    \/ DoVerifyAge
    \/ DoQueryVerifications
    \/ ReturnToClient

Spec == Init /\ [][Next]_vars

-----------------------------------------------------------------------------
(* The client process that uses merkle-utils: one action per function      *)

MerkleInit ==
    /\ impl = "lib"
    /\ ledger = [k \in {} |-> 0]
    /\ verificationKeyCache = FALSE
    /\ nextTx = 1
    /\ last = NoCall
    /\ poseidonInstance = Null
    /\ mlast = NoMerkleCall
    /\ pending = {}

\* No call is in progress.
MIdle == mlast.op = "none"

\* The call returns or throws; the instance it built stays in the module.
MInvoke(op, args, r) ==
    /\ mlast' = [op |-> op, args |-> args, ok |-> r.ok, error |-> r.error,
                 ret |-> r.ret]
    /\ poseidonInstance' = r.poseidonInstance
    /\ UNCHANGED <<impl, ledger, verificationKeyCache, nextTx, last, pending>>

\* The tree of a leaf sequence that buildMerkleTree accepts.
TreeOf(leaves) == buildMerkleTree(buildPoseidon, leaves).ret

\* Leaf sequences that buildMerkleTree accepts.
GoodLeafSeqs ==
    {leaves \in LeafSeqs :
        Len(leaves) > 0 /\ \A i \in 1..Len(leaves) : CanBigInt(leaves[i])}

DoValueToFieldElement ==
    /\ MIdle
    /\ \E value \in AttributeValues \cup LeafValues \cup {Num(<<"7">>)} :
         LET r == valueToFieldElement(value)
         IN MInvoke("valueToFieldElement", [value |-> value],
                    IF r.ok THEN MReturn(r.fe, poseidonInstance)
                    ELSE MThrow(ErrCannotConvert, poseidonInstance))

DoBuildMerkleTree ==
    /\ MIdle
    /\ \E leaves \in LeafSeqs :
         MInvoke("buildMerkleTree", [leaves |-> leaves],
                 buildMerkleTree(poseidonInstance, leaves))

DoGetRootHash ==
    /\ MIdle
    /\ \E tree \in {TreeOf(leaves) : leaves \in GoodLeafSeqs} \cup {NoTree} :
         MInvoke("getRootHash", [tree |-> tree], getRootHash(poseidonInstance, tree))

DoGenerateMerkleProof ==
    /\ MIdle
    /\ \/ \E leaves \in GoodLeafSeqs :
            \E leafIndex \in -1..Len(leaves) :
               MInvoke("generateMerkleProof",
                       [leaves |-> leaves, tree |-> TreeOf(leaves),
                        leafIndex |-> leafIndex],
                       generateMerkleProof(poseidonInstance, TreeOf(leaves), leafIndex))
       \/ MInvoke("generateMerkleProof",
                  [leaves |-> <<>>, tree |-> NoTree, leafIndex |-> 0],
                  generateMerkleProof(poseidonInstance, NoTree, 0))

\* What a caller of verifyMerkleProof may change in an honest proof: nothing,
\* the leaf, one sibling, one path index, the length of either array, the root.
NoValue == Str(<<>>)
Tamperings(height) ==
    {[kind |-> "none", level |-> 0, value |-> NoValue]}
      \cup {[kind |-> k, level |-> 0, value |-> v] : k \in {"leaf", "root"}, v \in LeafValues}
      \cup {[kind |-> "sibling", level |-> l, value |-> v] :
                l \in 0..(height - 1), v \in LeafValues}
      \cup {[kind |-> "flip", level |-> l, value |-> NoValue] : l \in 0..(height - 1)}
      \cup {[kind |-> k, level |-> 0, value |-> NoValue] :
                k \in IF height > 0 THEN {"dropIndex", "dropElement"} ELSE {}}

\* The arguments of verifyMerkleProof for leaf leafIndex of the tree over
\* leaves, changed as tamper says.
Presented(leaves, leafIndex, tamper) ==
    LET tree == TreeOf(leaves)
        proof == generateMerkleProof(buildPoseidon, tree, leafIndex).ret
        n == Len(proof.pathElements)
    IN [leaf |-> IF tamper.kind = "leaf" THEN tamper.value ELSE At(leaves, leafIndex),
        root |-> IF tamper.kind = "root" THEN tamper.value ELSE tree.root,
        proof |->
          [pathElements |->
             CASE tamper.kind = "sibling" ->
                    [i \in 1..n |-> IF i = tamper.level + 1 THEN tamper.value
                                    ELSE proof.pathElements[i]]
               [] tamper.kind = "dropElement" -> SubSeq(proof.pathElements, 1, n - 1)
               [] OTHER -> proof.pathElements,
           pathIndices |->
             CASE tamper.kind = "flip" ->
                    [i \in 1..n |-> IF i = tamper.level + 1 THEN 1 - proof.pathIndices[i]
                                    ELSE proof.pathIndices[i]]
               [] tamper.kind = "dropIndex" -> SubSeq(proof.pathIndices, 1, n - 1)
               [] OTHER -> proof.pathIndices]]

DoVerifyMerkleProof ==
    /\ MIdle
    /\ \E leaves \in GoodLeafSeqs :
         \E leafIndex \in 0..(Len(leaves) - 1) :
           \E tamper \in Tamperings(Len(TreeOf(leaves).layers) - 1) :
             LET call == Presented(leaves, leafIndex, tamper)
             IN MInvoke("verifyMerkleProof",
                        [leaves |-> leaves, leafIndex |-> leafIndex, tamper |-> tamper,
                         leaf |-> call.leaf, proof |-> call.proof, root |-> call.root],
                        verifyMerkleProof(poseidonInstance, call.leaf, call.proof,
                                          call.root))

DoComputeLeafHash ==
    /\ MIdle
    /\ \E fieldValue \in AttributeValues \ {Bool(TrueLiteral)},
          salt \in {NoSalt, Num(<<"7">>)} :
         MInvoke("computeLeafHash", [fieldValue |-> fieldValue, salt |-> salt],
                 LET poseidon == getPoseidon(poseidonInstance)
                 IN IF poseidon.use = Null THEN MThrow(ErrNotAFunction, poseidon.cache)
                    ELSE MReturn(computeLeafHash(fieldValue, salt), poseidon.cache))

\* The call of computeCredentialRoot that came right before a call with
\* (fields, fieldOrder), kept when it had the same fields or the same
\* fieldOrder.
NoEarlierCall == [called |-> FALSE]
EarlierCall(fields, fieldOrder) ==
    IF /\ mlast.op = "computeCredentialRoot"
       /\ mlast.args.fields = fields \/ mlast.args.fieldOrder = fieldOrder
    THEN [called |-> TRUE, fields |-> mlast.args.fields,
          fieldOrder |-> mlast.args.fieldOrder, ok |-> mlast.ok,
          error |-> mlast.error, ret |-> mlast.ret]
    ELSE NoEarlierCall

\* computeCredentialRoot may be called a second time right after it
\* returned, as the determinism test does; args.earlier remembers the first
\* call.
DoComputeCredentialRoot ==
    /\ \/ mlast.op = "none"
       \/ mlast.op = "computeCredentialRoot" /\ ~mlast.args.earlier.called
    /\ \E fields \in AttributeMaps, fieldOrder \in FieldOrders :
         MInvoke("computeCredentialRoot",
                 [fields |-> fields, fieldOrder |-> fieldOrder,
                  earlier |-> EarlierCall(fields, fieldOrder)],
                 computeCredentialRoot(poseidonInstance, fields, fieldOrder))

\* The caller has taken the result.
MerkleReturn ==
    /\ mlast.op # "none"
    /\ mlast' = NoMerkleCall
    /\ UNCHANGED <<impl, ledger, verificationKeyCache, nextTx, last, poseidonInstance,
                   pending>>

MerkleNext ==
    \/ DoValueToFieldElement
    \/ DoComputeLeafHash
    \/ DoBuildMerkleTree
    \/ DoGetRootHash
    \/ DoGenerateMerkleProof
    \/ DoVerifyMerkleProof
    \/ DoComputeCredentialRoot
    \/ MerkleReturn

MerkleSpec == MerkleInit /\ [][MerkleNext]_vars

-----------------------------------------------------------------------------
(* The three-signal VerifyAge of identity.js on the forms its arguments   *)
(* can take: one verification attempt at a time, each the last transaction *)
(* of a behaviour.                                                         *)

FalseLiteral == <<"f", "a", "l", "s", "e">>

\* minimumAge arguments: integers, an integer followed by a letter, zero, a
\* word.
AgeArguments ==
    { <<"1", "8">>, <<"2", "1">>, <<"1", "8", "a">>, <<"0">>, <<"a">> }

\* First public signals: the minimum age of the circuit as a string, as a
\* number, with a leading zero, another age, a word.
AgeSignals ==
    { Str(<<"1", "8">>), Num(<<"1", "8">>), Str(<<"0", "1", "8">>),
      Str(<<"2", "1">>), Str(<<"a">>) }

\* Third public signals.
FlagSignals ==
    { Str(<<"1">>), Str(<<"0">>), Str(TrueLiteral), Str(<<"T", "R", "U", "E">>),
      Num(<<"1">>), Num(<<"0">>), Bool(TrueLiteral), Bool(FalseLiteral) }

SignalInit ==
    /\ impl = "lib"
    /\ ledger = [k \in {} |-> 0]
    /\ verificationKeyCache = FALSE
    /\ nextTx = MaxTx
    /\ last = NoCall
    /\ poseidonInstance = Null
    /\ mlast = NoMerkleCall
    /\ pending = {}

DoVerifyAgeSignals ==
    /\ Idle
    /\ \E minimumAge \in AgeArguments, age \in AgeSignals, flag \in FlagSignals,
          verdict \in {"true", "false"} :
         LET payload == Payload("array", <<age, Str(R1), flag>>)
             r == VerifyAge(impl, ledger, verificationKeyCache, Ctx(nextTx, 0),
                            "u1", minimumAge, "proof", payload, TRUE, verdict)
         IN Invoke("VerifyAge", "u1",
                   [minimumAge |-> minimumAge, publicSignalsJSON |-> payload,
                    rootHash |-> R1],
                   r.verifier, r)

SignalNext ==
    \/ DoVerifyAgeSignals
    \/ ReturnToClient

SignalSpec == SignalInit /\ [][SignalNext]_vars

-----------------------------------------------------------------------------
(* Issuance and VerifyAge with root hashes in both formats the integration *)
(* guide allows: decimal strings and 0x-prefixed hexadecimal strings.      *)

\* R1 and R2 in hexadecimal.
R1Hex == <<"0", "x", "5", "4">>
R2Hex == <<"0", "x", "6", "3">>

\* Root hashes as callers may write them.
RootFormats == {R1, R1Hex, R2, R2Hex}

\* Payloads that pass the signal checks of one of the versions.
GoodPayloads ==
    { IsAdultOnly, Payload("array", <<Str(<<"1", "8">>), Str(R1), Str(<<"1">>)>>) }

DoIssueWithRoot ==
    /\ Idle
    /\ \E credentialHash \in {R1, R1Hex} :
           Invoke("IssueCredential", "u1",
                  [credentialHash |-> credentialHash, issuer |-> "TrustedIssuer",
                   timestamp |-> "2024-11-24T00:00:00Z"],
                  "not called",
                  IssueCredential(impl, ledger, verificationKeyCache, Ctx(nextTx, 0),
                                  "u1", credentialHash, "TrustedIssuer",
                                  "2024-11-24T00:00:00Z"))

DoVerifyAgeWithRoot ==
    /\ Idle
    /\ \E payload \in GoodPayloads, rootHash \in RootFormats,
          verdict \in {"true", "false"} :
           LET r == VerifyAge(impl, ledger, verificationKeyCache, Ctx(nextTx, 0),
                              "u1", <<"1", "8">>, "proof", payload, TRUE, verdict)
           IN Invoke("VerifyAge", "u1",
                     [minimumAge |-> <<"1", "8">>, publicSignalsJSON |-> payload,
                      rootHash |-> rootHash],
                     r.verifier, r)

BindingNext ==
    \/ DoIssueWithRoot
    \/ DoVerifyAgeWithRoot
    \/ ReturnToClient

BindingSpec == Init /\ [][BindingNext]_vars

-----------------------------------------------------------------------------
(* IssueCredential transactions in flight together                         *)
(*                                                                         *)
(* The host simulates a transaction on an endorsing peer against the       *)
(* committed state, which yields the handler's read set (getState) and     *)
(* write set (putState), and applies the write set later, at commit, if    *)
(* what the handler read is still what is committed.  The handlers         *)
(* contribute the read and write sets; the validation at commit is the     *)
(* host's.                                                                 *)

ConcurrentHolders == {"u1", "u2"}

ConcurrentHashes == {<<>>, R1, R2}

\* What a getState of key returns: the value, or nothing.
Observed(ldg, key) == IF Exists(ldg, key) THEN <<ldg[key]>> ELSE <<>>

\* The response of the host to a transaction whose read set is stale.
ErrReadConflict == "MVCC_READ_CONFLICT"

\* The read set still matches the committed state.
ReadSetValid(ldg, t) == \A k \in DOMAIN t.reads : Observed(ldg, k) = t.reads[k]

\* An endorsing peer simulates IssueCredential: the ledger is not touched,
\* and the read and write set of a handler that returned wait for the commit.
SimulateIssueCredential ==
    /\ Idle
    /\ \E userID \in ConcurrentHolders, credentialHash \in ConcurrentHashes :
         LET r == IssueCredential(impl, ledger, verificationKeyCache, Ctx(nextTx, 0),
                                  userID, credentialHash, "TrustedIssuer",
                                  "2024-11-24T00:00:00Z")
             keys == IssueCredentialReads(userID, credentialHash)
             t == [txID |-> nextTx, userID |-> userID,
                   credentialHash |-> credentialHash,
                   reads |-> [k \in keys |-> Observed(ledger, k)],
                   writes |-> r.writes, events |-> r.events, ret |-> r.ret]
         IN /\ pending' = IF r.ok THEN pending \cup {t} ELSE pending
            /\ nextTx' = IF r.ok THEN nextTx + 1 ELSE nextTx
            /\ verificationKeyCache' = r.cache
            /\ last' = [op |-> "IssueCredential", userID |-> userID, txID |-> nextTx,
                        args |-> [credentialHash |-> credentialHash,
                                  issuer |-> "TrustedIssuer",
                                  timestamp |-> "2024-11-24T00:00:00Z"],
                        verifier |-> "not called", ok |-> r.ok, error |-> r.error,
                        events |-> NoEvents, ret |-> r.ret]
    /\ UNCHANGED <<impl, ledger, poseidonInstance, mlast>>

\* The host commits a simulated transaction, in any order: its write set is
\* applied and its event delivered if its read set is still valid, and the
\* transaction is marked invalid and leaves no trace otherwise.
Commit ==
    /\ last.op = "none"
    /\ \E t \in pending :
         LET valid == ReadSetValid(ledger, t) IN
            /\ ledger' = IF valid THEN t.writes @@ ledger ELSE ledger
            /\ pending' = pending \ {t}
            /\ last' = [op |-> "Commit", userID |-> t.userID, txID |-> t.txID,
                        args |-> [credentialHash |-> t.credentialHash,
                                  issuer |-> "TrustedIssuer",
                                  timestamp |-> "2024-11-24T00:00:00Z"],
                        verifier |-> "not called", ok |-> valid,
                        error |-> IF valid THEN "" ELSE ErrReadConflict,
                        events |-> IF valid THEN t.events ELSE NoEvents,
                        ret |-> t.ret]
    /\ UNCHANGED <<impl, verificationKeyCache, nextTx, poseidonInstance, mlast>>

ConcurrentNext ==
    \/ SimulateIssueCredential
    \/ Commit
    \/ ReturnToClient

ConcurrentSpec == Init /\ [][ConcurrentNext]_vars

-----------------------------------------------------------------------------
(* The single-signal VerifyAge of part_007 on every form of its arguments: *)
(* the calls up to the first one that is accepted.                         *)

MinimumAgeInit ==
    /\ impl = "index"
    /\ ledger = [k \in {} |-> 0]
    /\ verificationKeyCache = FALSE
    /\ nextTx = MaxTx
    /\ last = NoCall
    /\ poseidonInstance = Null
    /\ mlast = NoMerkleCall
    /\ pending = {}

MinimumAgeNext ==
    \/ DoVerifyAge
    \/ ReturnToClient

MinimumAgeSpec == MinimumAgeInit /\ [][MinimumAgeNext]_vars

-----------------------------------------------------------------------------
(* Verifications while the key file comes and goes: verification_key.json  *)
(* may be readable or unreadable at every call, whether or not the key is  *)
(* cached.                                                                 *)

KeyFileStates == BOOLEAN

DoVerifyProofKeyFile ==
    /\ Idle
    /\ \E pp \in ProofPayloads, readable \in KeyFileStates, skew \in Skews :
         \E verdict \in VerdictsFor(pp) :
           LET r == VerifyProof(impl, ledger, verificationKeyCache, Ctx(nextTx, skew),
                                "u1", pp[1], pp[2], readable, verdict)
           IN Invoke("VerifyProof", "u1", [publicSignalsJSON |-> pp[2]],
                     r.verifier, r)

DoVerifyAgeKeyFile ==
    /\ Idle
    /\ \E pp \in AgePayloads, readable \in KeyFileStates, skew \in Skews :
         \E verdict \in VerdictsFor(pp) :
           LET r == VerifyAge(impl, ledger, verificationKeyCache, Ctx(nextTx, skew),
                              "u1", <<"1", "8">>, pp[1], pp[2], readable, verdict)
           IN Invoke("VerifyAge", "u1",
                     [minimumAge |-> <<"1", "8">>, publicSignalsJSON |-> pp[2],
                      rootHash |-> R1],
                     r.verifier, r)

KeyFileNext ==
    \/ DoVerifyProofKeyFile
    \/ DoVerifyAgeKeyFile
    \/ ReturnToClient

KeyFileSpec == Init /\ [][KeyFileNext]_vars

-----------------------------------------------------------------------------
(* Vocabulary of the claims                                                *)

HasCredential(ldg, userID) == Exists(ldg, credentialKey(userID))
Credential(ldg, userID) == ldg[credentialKey(userID)]
Revoked(ldg, userID) ==
    HasCredential(ldg, userID) /\ ~Credential(ldg, userID).valid

Holders == UserIDs \ {""}

\* The latest invocation is a call of op.
Called(op) == last.op = op

\* No ledger entry carries the transaction id of the latest invocation.
NothingWritten == \A k \in DOMAIN ledger : Len(k) = 3 => k[3] # last.txID

\* The record an accepted VerifyAge leaves for the latest invocation.
AgeRecordWritten ==
    createCompositeKey("ageVerification", <<last.userID, last.txID>>) \in DOMAIN ledger

\* Error kinds, by the messages that belong to them.
ValidationError == {ErrIssueArgs, ErrUserRequired, ErrMinAgeRequired, ErrMinAgeInvalid}
MalformedPayloadError == {ErrPayloadRequired, ErrInvalidJSON}
KeyUnavailableError == {ErrKeyUnreadable}
ProofInvalidError == {ErrProofFailed, ErrSnarkjs}
SignalMismatchError ==
    {ErrSignalsEmpty, ErrNotAdult, ErrSignalsShort, ErrCircuitMinAge,
     ErrMinAgeMismatch, ErrBelowMinAge}
AlreadyExistsError == {ErrAlreadyExists}
NotFoundError == {ErrNoCredential}
\* The two messages the integration guide gives for the checks of the root
\* binding stage (MERKLE_INTEGRATION.md, "Revocation Check", "Troubleshooting").
RevokedCredentialError == {"Credential for user has been revoked"}
RootMismatchError == {"Proof rootHash does not match on-chain credential"}

\* Rejections of the stages before the root binding stage.
EarlierStageError ==
    ValidationError \cup MalformedPayloadError \cup KeyUnavailableError
      \cup ProofInvalidError \cup SignalMismatchError

\* The root a payload itself claims: the second public signal, in the circuit
\* outputs [isAdult, rootHash] and in [minimumAge, credentialHash, isOfAgeFlag].
ClaimsRoot(payload) == payload.kind = "array" /\ Len(payload.items) >= 2
ClaimedRoot(payload) == payload.items[2].v

\* The adulthood signal of a payload under the convention of the deployed
\* version: the first signal of [isAdult], the third of
\* [minimumAge, credentialHash, isOfAgeFlag].
AdultIndex == IF impl = "index" THEN 1 ELSE 3
AdultSignalIs(payload, s) ==
    /\ payload.kind = "array"
    /\ Len(payload.items) >= AdultIndex
    /\ payload.items[AdultIndex] = Str(s)

-----------------------------------------------------------------------------
(* Claims about the acceptance decision of VerifyAge                       *)

\* C1: a VerifyAge for a holder whose stored credentialHash differs from the
\* root hash the caller supplies is rejected, with the root-mismatch error
\* unless an earlier check (arguments, payload, proof, signals, revocation)
\* already rejected it, and writes no verification record.
C1_RootMismatchRejected ==
    ( /\ Called("VerifyAge")
      /\ HasCredential(ledger, last.userID)
      /\ last.args.rootHash # Credential(ledger, last.userID).credentialHash )
    => /\ ~last.ok
       /\ last.error \notin (EarlierStageError \cup RevokedCredentialError)
             => last.error \in RootMismatchError
       /\ ~AgeRecordWritten

\* C2 (binding): VerifyAge never accepts a payload whose own claimed root
\* differs from the credentialHash stored for the holder, even when the
\* root hash supplied as separate argument equals the stored one.
C2_Binding ==
    ~ ( /\ Called("VerifyAge")
        /\ last.ok
        /\ last.verifier = "true"
        /\ HasCredential(ledger, last.userID)
        /\ last.args.rootHash = Credential(ledger, last.userID).credentialHash
        /\ ClaimsRoot(last.args.publicSignalsJSON)
        /\ ClaimedRoot(last.args.publicSignalsJSON)
              # Credential(ledger, last.userID).credentialHash )

\* C3: a VerifyAge for a holder whose credential is revoked is rejected, with
\* the revoked-credential error unless an earlier stage already rejected it.
C3_RevokedRejected ==
    (Called("VerifyAge") /\ Revoked(ledger, last.userID))
    => /\ ~last.ok
       /\ last.error \notin EarlierStageError => last.error \in RevokedCredentialError

\* C4: a VerifyAge for a holder without a credential on the ledger is never
\* accepted, and fails with the not-found error unless an earlier stage
\* already rejected it.
C4_UnknownHolderRejected ==
    ( /\ Called("VerifyAge")
      /\ last.userID # ""
      /\ ~HasCredential(ledger, last.userID) )
    => /\ ~last.ok
       /\ last.error \notin EarlierStageError => last.error \in NotFoundError

\* C5: a VerifyAge whose proof the external verifier accepted and whose
\* adulthood signal is "0" fails with a signal-mismatch error, writes no
\* record and emits no event.
C5_ZeroSignalRejected ==
    ( /\ Called("VerifyAge")
      /\ last.verifier = "true"
      /\ AdultSignalIs(last.args.publicSignalsJSON, <<"0">>) )
    => /\ ~last.ok
       /\ last.error \in SignalMismatchError
       /\ NothingWritten
       /\ last.events = NoEvents

\* C5 witness: the verifier accepted a proof whose adulthood signal is "0",
\* and VerifyAge has answered.
C5_Witness ==
    /\ Called("VerifyAge")
    /\ last.verifier = "true"
    /\ AdultSignalIs(last.args.publicSignalsJSON, <<"0">>)
    /\ HasCredential(ledger, last.userID)

\* C6 as claimed: whenever the external verifier returns false or throws,
\* VerifyProof and VerifyAge fail with a proof-invalid error.
C6_ProofInvalidFails ==
    ( /\ Called("VerifyProof") \/ Called("VerifyAge")
      /\ last.verifier \in {"false", "throws"} )
    => /\ ~last.ok
       /\ last.error \in ProofInvalidError

\* C6 amended: when the external verifier throws, VerifyProof and VerifyAge
\* fail with a proof-invalid error and write nothing; when it returns false,
\* VerifyAge fails with a proof-invalid error and writes nothing, while
\* VerifyProof returns normally with valid = false and records the attempt
\* with valid = false.
C6_ProofInvalidAmended ==
    /\ ( /\ Called("VerifyProof") \/ Called("VerifyAge")
         /\ last.verifier = "throws" )
       => (~last.ok /\ last.error \in ProofInvalidError /\ NothingWritten)
    /\ (Called("VerifyAge") /\ last.verifier = "false")
       => (~last.ok /\ last.error \in ProofInvalidError /\ NothingWritten)
    /\ (Called("VerifyProof") /\ last.verifier = "false")
       => /\ last.ok
          /\ last.ret = [valid |-> FALSE]
          /\ LET key == createCompositeKey("verification", <<last.userID, last.txID>>)
             IN key \in DOMAIN ledger /\ ledger[key].valid = FALSE

\* C6 witness: the verifier returned false to VerifyProof, which has answered.
C6_Witness ==
    /\ Called("VerifyProof")
    /\ last.verifier = "false"
    /\ last.ok

-----------------------------------------------------------------------------
(* Claims about the credential ledger store                                *)

\* C7: once a credential is stored for a holder, every further
\* IssueCredential for that holder, in any later state, fails and leaves the
\* ledger as it was; the failure is the already-exists error whenever the
\* call carries a credentialHash (a call without one fails on its arguments).
C7_IssueWriteOnce ==
    [][ (last'.op = "IssueCredential" /\ HasCredential(ledger, last'.userID))
        => /\ ~last'.ok
           /\ last'.args.credentialHash # <<>> => last'.error \in AlreadyExistsError
           /\ ledger' = ledger
           /\ last'.events = NoEvents ]_vars

\* C7 witness: IssueCredential has failed with the already-exists error for a
\* holder whose credential is revoked.
C7_Witness ==
    /\ Called("IssueCredential")
    /\ last.error \in AlreadyExistsError
    /\ Revoked(ledger, last.userID)

\* C8: revocation is one-way: a credential with valid = false has
\* valid = false after every step.
C8_RevocationOneWay ==
    [][ \A u \in Holders : Revoked(ledger, u) => Revoked(ledger', u) ]_vars

\* C8 witness: a revoked credential after a further committed transaction on
\* the same holder (issued, revoked, revoked again).
C8_Witness ==
    /\ Called("RevokeCredential")
    /\ last.ok
    /\ last.txID = 3
    /\ Revoked(ledger, last.userID)

\* C9: a stored credential carries revokedAt or revocationReason only if
\* valid = false, and every credential with valid = false carries revokedAt.
C9_RevocationFields ==
    \A u \in Holders :
        HasCredential(ledger, u) =>
            LET c == Credential(ledger, u) IN
            /\ ({"revokedAt", "revocationReason"} \cap DOMAIN c # {}) => ~c.valid
            /\ ~c.valid => "revokedAt" \in DOMAIN c

\* C9 witness: a revoked credential that carries a revocationReason.
C9_Witness ==
    \E u \in Holders :
        /\ Revoked(ledger, u)
        /\ "revocationReason" \in DOMAIN Credential(ledger, u)

\* C10: RevokeCredential(h, reason) fails with the not-found error, writes
\* nothing and emits nothing when h has no credential; when h has one it
\* stores it with valid = false, with revokedAt set to the time of the
\* transaction and with the reason given, changes no other entry, and emits
\* exactly one RevokeCredential event for h.
C10_Revoke ==
    [][ (last'.op = "RevokeCredential" /\ last'.userID # "")
        => LET h == last'.userID
               key == credentialKey(h)
           IN IF ~HasCredential(ledger, h)
              THEN /\ ~last'.ok
                   /\ last'.error \in NotFoundError
                   /\ ledger' = ledger
                   /\ last'.events = NoEvents
              ELSE /\ last'.ok
                   /\ DOMAIN ledger' = DOMAIN ledger
                   /\ \A k \in DOMAIN ledger : k # key => ledger'[k] = ledger[k]
                   /\ ~ledger'[key].valid
                   /\ "revokedAt" \in DOMAIN ledger'[key]
                   /\ ledger'[key].revokedAt
                         \in {Now(impl, Ctx(last'.txID, skew)) : skew \in Skews}
                   /\ last'.args.reason # ""
                         => /\ "revocationReason" \in DOMAIN ledger'[key]
                            /\ ledger'[key].revocationReason = last'.args.reason
                   /\ last'.events = <<Event("RevokeCredential", [userID |-> h])>>
      ]_vars

\* C10 witness: RevokeCredential has stored a credential with the reason given.
C10_Witness ==
    /\ Called("RevokeCredential")
    /\ last.ok
    /\ last.args.reason = "fraud"
    /\ Credential(ledger, last.userID).revocationReason = "fraud"

-----------------------------------------------------------------------------
(* Vocabulary of the claims about merkle-utils                             *)

MCalled(op) == mlast.op = op

\* The field element a leaf, sibling or root denotes, however it is spelled.
Denotes(value) == BigInt(value)

\* The two-input hash of two field elements, as a field element.
Hash2(l, r) == Poseidon2(l, r)

\* Element j (from 0) of layer i (from 0) of a tree, as a field element.
Node(tree, i, j) == At(At(tree.layers, i), j).v

\* Number of layers above the leaves.
Height(tree) == Len(tree.layers) - 1

RECURSIVE Pow2(_)
Pow2(h) == IF h = 0 THEN 1 ELSE 2 * Pow2(h - 1)

\* ceil(log2(n)) for n >= 1.
CeilLog2(n) == CHOOSE h \in 0..n : Pow2(h) >= n /\ (h = 0 \/ Pow2(h - 1) < n)

-----------------------------------------------------------------------------
(* Claims about the Merkle tree, its proofs and their verification         *)

\* C11 (round trip): for every non-empty leaf sequence and every index i,
\* verifyMerkleProof of leaves[i], the proof generateMerkleProof gives for i
\* and the root of the tree returns true.
C11_RoundTrip ==
    (MCalled("verifyMerkleProof") /\ mlast.args.tamper.kind = "none")
    => mlast.ok /\ mlast.ret = TRUE

\* C11 witness: the proof of the last leaf of a five-leaf tree (layers of 5,
\* 3, 2 and 1 nodes) has been verified.
C11_Witness ==
    /\ MCalled("verifyMerkleProof")
    /\ mlast.args.tamper.kind = "none"
    /\ Len(mlast.args.leaves) = 5
    /\ mlast.args.leafIndex = 4
    /\ Len(mlast.args.proof.pathElements) = 3
    /\ mlast.ok

\* C12: in every tree buildMerkleTree returns, layers[0] holds the field
\* elements of the input leaves in their order, the last layer has exactly
\* one element, which is the root, and every node of a layer above the leaves
\* is Hash2 of its two children, the left child standing in for a missing
\* right child.
C12_TreeShape ==
    (MCalled("buildMerkleTree") /\ mlast.ok)
    => LET tree == mlast.ret
           leaves == mlast.args.leaves
           top == Height(tree)
       IN /\ Len(At(tree.layers, 0)) = Len(leaves)
          /\ \A j \in 0..(Len(leaves) - 1) : Node(tree, 0, j) = Denotes(At(leaves, j))
          /\ Len(At(tree.layers, top)) = 1
          /\ tree.root = At(At(tree.layers, top), 0)
          /\ \A i \in 0..(top - 1) :
               LET below == Len(At(tree.layers, i))
               IN /\ Len(At(tree.layers, i + 1)) = (below + 1) \div 2
                  /\ \A j \in 0..(Len(At(tree.layers, i + 1)) - 1) :
                       Node(tree, i + 1, j) =
                         Hash2(Node(tree, i, 2 * j),
                               IF 2 * j + 1 < below THEN Node(tree, i, 2 * j + 1)
                               ELSE Node(tree, i, 2 * j))

\* C12 witness: a tree over five leaves has been built.
C12_Witness ==
    /\ MCalled("buildMerkleTree")
    /\ mlast.ok
    /\ Len(mlast.args.leaves) = 5
    /\ Len(mlast.ret.layers) = 4

\* C13: a tree over n leaves has height ceil(log2(n)), height 0 exactly when
\* n = 1, and then its root is the leaf; pathElements and pathIndices of
\* every proof have the length of that height.
C13_Height ==
    /\ (MCalled("buildMerkleTree") /\ mlast.ok)
       => LET n == Len(mlast.args.leaves) IN
          /\ Height(mlast.ret) = CeilLog2(n)
          /\ Height(mlast.ret) = 0 <=> n = 1
          /\ n = 1 => mlast.ret.root.v = Denotes(mlast.args.leaves[1])
    /\ (MCalled("generateMerkleProof") /\ mlast.ok)
       => /\ Height(mlast.args.tree) = CeilLog2(Len(mlast.args.leaves))
          /\ Len(mlast.ret.pathElements) = Height(mlast.args.tree)
          /\ Len(mlast.ret.pathIndices) = Height(mlast.args.tree)

\* C13 witness: a proof of three steps for a leaf of a five-leaf tree.
C13_Witness ==
    /\ MCalled("generateMerkleProof")
    /\ mlast.ok
    /\ Len(mlast.args.leaves) = 5
    /\ Len(mlast.ret.pathElements) = 3

\* C14: at each level of generateMerkleProof the sibling recorded is the
\* node at index + 1 for an even index and at index - 1 for an odd index,
\* with path index 0 resp. 1; when that position does not exist the sibling
\* is the node itself, with path index 0.  The proof for leaf 2 of a
\* three-leaf tree has leaf 2 as pathElements[0].
C14_Siblings ==
    (MCalled("generateMerkleProof") /\ mlast.ok)
    => LET tree == mlast.args.tree
           proof == mlast.ret
       IN /\ \A level \in 0..(Len(proof.pathElements) - 1) :
               LET index == mlast.args.leafIndex \div Pow2(level)
                   layer == At(tree.layers, level)
                   adjacent == IF index % 2 = 0 THEN index + 1 ELSE index - 1
               IN IF adjacent < Len(layer)
                  THEN /\ At(proof.pathElements, level) = At(layer, adjacent)
                       /\ At(proof.pathIndices, level) = index % 2
                  ELSE /\ At(proof.pathElements, level) = At(layer, index)
                       /\ At(proof.pathIndices, level) = 0
          /\ (Len(mlast.args.leaves) = 3 /\ mlast.args.leafIndex = 2)
                => At(proof.pathElements, 0).v = Denotes(At(mlast.args.leaves, 2))

\* C14 witness: the proof for leaf 2 of a three-leaf tree.
C14_Witness ==
    /\ MCalled("generateMerkleProof")
    /\ mlast.ok
    /\ Len(mlast.args.leaves) = 3
    /\ mlast.args.leafIndex = 2

\* C15: with the collision-free hash, a proof whose leaf, or one of whose
\* path elements, is replaced by a different field element is verified
\* against the root of the tree with the result false.
C15_TamperDetected ==
    /\ ( /\ MCalled("verifyMerkleProof")
         /\ mlast.args.tamper.kind = "leaf"
         /\ Denotes(mlast.args.tamper.value)
               # Denotes(At(mlast.args.leaves, mlast.args.leafIndex)) )
       => mlast.ok /\ mlast.ret = FALSE
    /\ ( /\ MCalled("verifyMerkleProof")
         /\ mlast.args.tamper.kind = "sibling"
         /\ Denotes(mlast.args.tamper.value)
               # Denotes(At(generateMerkleProof(buildPoseidon, TreeOf(mlast.args.leaves),
                                                mlast.args.leafIndex).ret.pathElements,
                            mlast.args.tamper.level)) )
       => mlast.ok /\ mlast.ret = FALSE

\* C15 witness: the sibling at the second level of a proof of a five-leaf
\* tree was replaced and the proof verified.
C15_Witness ==
    /\ MCalled("verifyMerkleProof")
    /\ mlast.args.tamper.kind = "sibling"
    /\ mlast.args.tamper.level = 1
    /\ Len(mlast.args.leaves) = 5
    /\ mlast.ok
    /\ mlast.ret = FALSE

\* The result of a call of computeCredentialRoot that the caller compares:
\* whether it returned, the error, the root and the leaf sequence.
Outcome(call) ==
    IF call.ok
    THEN [ok |-> TRUE, rootHash |-> call.ret.rootHash, leaves |-> call.ret.leaves]
    ELSE [ok |-> FALSE, error |-> call.error]

\* C16: computeCredentialRoot is deterministic: a call with the attributes
\* and the fieldOrder of the call before it has the same outcome (the same
\* root and the same leaf sequence), whether or not the shared hash instance
\* had been built by earlier calls, and its outcome is the one of a call made
\* in a freshly loaded module.
C16_Deterministic ==
    MCalled("computeCredentialRoot") =>
        /\ ( /\ mlast.args.earlier.called
             /\ mlast.args.earlier.fields = mlast.args.fields
             /\ mlast.args.earlier.fieldOrder = mlast.args.fieldOrder )
           => Outcome(mlast) = Outcome(mlast.args.earlier)
        /\ Outcome(mlast)
             = Outcome(computeCredentialRoot(Null, mlast.args.fields, mlast.args.fieldOrder))

\* C16 witness: computeCredentialRoot returned a root of two leaves for the
\* second time in a row for the same arguments.
C16_Witness ==
    /\ MCalled("computeCredentialRoot")
    /\ mlast.args.earlier.called
    /\ mlast.args.earlier.fields = mlast.args.fields
    /\ mlast.args.earlier.fieldOrder = mlast.args.fieldOrder
    /\ mlast.ok
    /\ mlast.args.earlier.ok
    /\ Len(mlast.ret.leaves) = 2

\* The number of positions of sequence s that hold x.
Count(s, x) == Cardinality({i \in 1..Len(s) : s[i] = x})

\* Sequence t is a reordering of sequence s.
IsPermutation(s, t) ==
    /\ Len(s) = Len(t)
    /\ \A i \in 1..Len(s) : Count(s, s[i]) = Count(t, s[i])

\* C17: computeCredentialRoot returns its leaves in the order of fieldOrder
\* (leaf i is the leaf hash of the attribute named at position i), and for
\* the same attributes a reordered fieldOrder whose leaf sequence differs
\* gives a different root.
C17_FieldOrder ==
    (MCalled("computeCredentialRoot") /\ mlast.ok) =>
        /\ Len(mlast.ret.leaves) = Len(mlast.args.fieldOrder)
        /\ \A i \in 1..Len(mlast.args.fieldOrder) :
              mlast.ret.leaves[i]
                = FeString(Poseidon1(
                      valueToFieldElement(mlast.args.fields[mlast.args.fieldOrder[i]]).fe))
        /\ ( /\ mlast.args.earlier.called
             /\ mlast.args.earlier.ok
             /\ mlast.args.earlier.fields = mlast.args.fields
             /\ IsPermutation(mlast.args.earlier.fieldOrder, mlast.args.fieldOrder)
             /\ mlast.args.earlier.ret.leaves # mlast.ret.leaves )
           => mlast.args.earlier.ret.rootHash # mlast.ret.rootHash

\* C17 witness: computeCredentialRoot returned for three listed fields right
\* after it returned for the same attributes with the fields in another
\* order, and the two leaf sequences differ.
C17_Witness ==
    /\ MCalled("computeCredentialRoot")
    /\ mlast.ok
    /\ mlast.args.earlier.called
    /\ mlast.args.earlier.ok
    /\ mlast.args.earlier.fields = mlast.args.fields
    /\ mlast.args.earlier.fieldOrder # mlast.args.fieldOrder
    /\ IsPermutation(mlast.args.earlier.fieldOrder, mlast.args.fieldOrder)
    /\ Len(mlast.args.fieldOrder) = 3
    /\ mlast.args.earlier.ret.leaves # mlast.ret.leaves

\* C18: for one fieldOrder, two attribute mappings that differ in the value
\* of at least one listed field get different roots from
\* computeCredentialRoot.
C18_DifferentCredentials ==
    ( /\ MCalled("computeCredentialRoot")
      /\ mlast.ok
      /\ mlast.args.earlier.called
      /\ mlast.args.earlier.ok
      /\ mlast.args.earlier.fieldOrder = mlast.args.fieldOrder
      /\ \E i \in 1..Len(mlast.args.fieldOrder) :
            mlast.args.earlier.fields[mlast.args.fieldOrder[i]]
               # mlast.args.fields[mlast.args.fieldOrder[i]] )
    => mlast.args.earlier.ret.rootHash # mlast.ret.rootHash

\* The integer with the base-256 digits bytes, most significant first.
RECURSIVE BytesValue(_)
BytesValue(bytes) ==
    IF bytes = <<>> THEN 0
    ELSE Radix * BytesValue(SubSeq(bytes, 1, Len(bytes) - 1)) + bytes[Len(bytes)]

\* The string value is a non-empty string of decimal digits.
IsNumericString(value) ==
    \/ value.t = "fe"
    \/ value.t = "str" /\ value.v # <<>> /\ IsDigits(value.v)

\* What C19 says of a call of the encoder with a string, given the value, the
\* returned integer and the hash instance before and after the call.
EncoderContract(value, result, instBefore, instAfter) ==
    /\ instAfter = instBefore
    /\ result.k = "int" \/ value.t = "fe"
    /\ value.t = "fe" => result = value.v
    /\ (value.t = "str" /\ IsNumericString(value)) =>
          /\ BytesValue(result.b) = DecimalValue(value.v)
          /\ result.b # <<>> => result.b[1] # 0
    /\ (value.t = "str" /\ ~IsNumericString(value)) =>
          LET bytes == encode(value.v)
          IN /\ Len(result.b) <= 31
             /\ Len(result.b) = Min(Len(bytes), 31)
             /\ \A i \in 1..Len(result.b) :
                   result.b[i] = bytes[i] /\ result.b[i] \in 0..255

\* C19: the encoder maps a string of decimal digits to the integer it
\* denotes and any other string to the big-endian integer of its first 31
\* bytes at most (so below 256^31), and does nothing else: the result
\* depends on the value only and the shared hash instance is left alone.
C19_Encoder ==
    [][ ( /\ mlast'.op = "valueToFieldElement"
          /\ mlast'.args.value.t \in {"str", "fe"} )
        => /\ mlast'.ok
           /\ EncoderContract(mlast'.args.value, mlast'.ret,
                              poseidonInstance, poseidonInstance') ]_vars

\* C19 witness: the encoder returned a 31-byte integer for a string of more
\* than 31 bytes.
C19_Witness ==
    /\ MCalled("valueToFieldElement")
    /\ mlast.args.value.t = "str"
    /\ ~IsNumericString(mlast.args.value)
    /\ Len(encode(mlast.args.value.v)) > 31
    /\ mlast.ok
    /\ Len(mlast.ret.b) = 31

\* The running value after the first n levels of a path from leaf: at each
\* level Hash2(running, sibling) where the path index is 0 and
\* Hash2(sibling, running) otherwise.
RECURSIVE Running(_, _, _)
Running(leaf, proof, n) ==
    IF n = 0 THEN Denotes(leaf)
    ELSE LET running == Running(leaf, proof, n - 1)
             sibling == Denotes(proof.pathElements[n])
         IN IF proof.pathIndices[n] = 0 THEN Hash2(running, sibling)
            ELSE Hash2(sibling, running)

\* C20: verifyMerkleProof throws the error of a malformed proof when
\* pathElements and pathIndices differ in length; otherwise it returns, and
\* returns true exactly when the value replayed from the leaf along the path
\* is the expected root.
C20_Verify ==
    MCalled("verifyMerkleProof") =>
        IF Len(mlast.args.proof.pathElements) # Len(mlast.args.proof.pathIndices)
        THEN ~mlast.ok /\ mlast.error = ErrProofStructure
        ELSE /\ mlast.ok
             /\ mlast.ret \in BOOLEAN
             /\ mlast.ret
                  <=> ( Running(mlast.args.leaf, mlast.args.proof,
                                Len(mlast.args.proof.pathElements))
                          = Denotes(mlast.args.root) )

\* C20 witness: verifyMerkleProof returned true for a path of three levels
\* on which the node is once a left and once a right child.
C20_Witness ==
    /\ MCalled("verifyMerkleProof")
    /\ mlast.ok
    /\ mlast.ret = TRUE
    /\ Len(mlast.args.proof.pathIndices) = 3
    /\ Len(mlast.args.proof.pathElements) = 3
    /\ \E i, j \in 1..3 :
          mlast.args.proof.pathIndices[i] = 0 /\ mlast.args.proof.pathIndices[j] = 1

-----------------------------------------------------------------------------
(* Claims about the verification records and the atomicity of the handlers *)

\* The key namespaces of the verification records.
RecordNamespaces == {"verification", "ageVerification"}

\* The keys of the verification records of the ledger.
RecordKeys(ldg) == {k \in DOMAIN ldg : k[1] \in RecordNamespaces}

\* Whether a verification record says the attempt was accepted: valid in the
\* records of VerifyProof, isOfAge in those of VerifyAge.
Accepted(record) ==
    IF "valid" \in DOMAIN record THEN record.valid ELSE record.isOfAge

\* The fields in which a record could carry a failure reason.
ReasonFields == {"error", "reason", "failureReason"}

\* The latest invocation is a verification attempt.
VerificationAttempt == Called("VerifyProof") \/ Called("VerifyAge")

\* The record of the latest invocation under namespace ns.
AttemptKey(ns) == createCompositeKey(ns, <<last.userID, last.txID>>)

WritingOps == {"IssueCredential", "RevokeCredential", "VerifyProof", "VerifyAge"}

\* C22: no operation partially commits: when IssueCredential,
\* RevokeCredential, VerifyProof or VerifyAge ends in an error, the ledger
\* (every credential and every verification record) is what it was before
\* the invocation and no event is emitted.
C22_NoPartialCommit ==
    [][ (last'.op \in WritingOps /\ ~last'.ok)
        => /\ ledger' = ledger
           /\ last'.events = NoEvents
           /\ nextTx' = nextTx ]_vars

\* C22 witness: VerifyProof ended in the error of a throwing verifier while
\* the ledger holds a credential and the record of an earlier attempt.
C22_Witness ==
    /\ Called("VerifyProof")
    /\ ~last.ok
    /\ last.error = ErrSnarkjs
    /\ HasCredential(ledger, last.userID)
    /\ RecordKeys(ledger) # {}

\* C23: an accepted VerifyAge writes exactly one verification record, under
\* the key (ageVerification, holder, transaction id), with the age predicate
\* recorded as satisfied and the public signals as presented; it emits
\* exactly one VerifyAge event and returns an outcome with valid = true.
C23_AcceptedVerifyAge ==
    [][ (last'.op = "VerifyAge" /\ last'.ok)
        => LET key == createCompositeKey("ageVerification", <<last'.userID, last'.txID>>)
           IN /\ key \notin DOMAIN ledger
              /\ DOMAIN ledger' = DOMAIN ledger \cup {key}
              /\ \A k \in DOMAIN ledger : ledger'[k] = ledger[k]
              /\ ledger'[key].userID = last'.userID
              /\ ledger'[key].txID = last'.txID
              /\ ledger'[key].isOfAge = TRUE
              /\ ledger'[key].publicSignals = last'.args.publicSignalsJSON
              /\ Len(last'.events) = 1
              /\ last'.events[1].name = "VerifyAge"
              /\ last'.events[1].payload.userID = last'.userID
              /\ last'.ret.valid = TRUE ]_vars

\* C23 witness: VerifyAge was accepted as the third committed transaction,
\* and its record is on the ledger next to two other entries.
C23_Witness ==
    /\ Called("VerifyAge")
    /\ last.ok
    /\ last.txID = 3
    /\ AgeRecordWritten
    /\ Cardinality(DOMAIN ledger) = 3

-----------------------------------------------------------------------------
(* Claims about the public signals of VerifyAge                            *)

\* The minimumAge argument is the decimal spelling of a positive integer.
PositiveAge(minimumAge) ==
    minimumAge # <<>> /\ IsDigits(minimumAge) /\ DecimalValue(minimumAge) > 0

\* The payload follows the single-signal convention [isAdult], isAdult = "1".
SingleSignalAdult(payload) ==
    payload.kind = "array" /\ Len(payload.items) = 1 /\ payload.items[1] = Str(<<"1">>)

\* The first signal of a three-signal payload is minimumAge as a number.
SignalAgeMatches(payload, minimumAge) ==
    /\ payload.items[1].t \in {"str", "num"}
    /\ payload.items[1].v # <<>>
    /\ IsDigits(payload.items[1].v)
    /\ DecimalValue(payload.items[1].v) = DecimalValue(minimumAge)

\* The third signal of a three-signal payload is 1, true, "1" or "true".
SignalFlagSet(payload) ==
    payload.items[3] \in {Num(<<"1">>), Bool(TrueLiteral), Str(<<"1">>), Str(TrueLiteral)}

\* The payload follows the three-signal convention
\* [minimumAge, credentialHash, isOfAgeFlag].
ThreeSignals(payload) == payload.kind = "array" /\ Len(payload.items) = 3

\* C24: VerifyAge supports both public-signal conventions: with a proof the
\* verifier accepts, for a holder and a positive minimumAge, it accepts the
\* payload [isAdult] with isAdult = "1", and it accepts the payload
\* [minimumAge, credentialHash, isOfAgeFlag] whose first signal equals the
\* minimumAge argument and whose flag is set.
C24_BothConventions ==
    ( /\ Called("VerifyAge")
      /\ last.userID # ""
      /\ PositiveAge(last.args.minimumAge)
      /\ last.verifier = "true"
      /\ \/ SingleSignalAdult(last.args.publicSignalsJSON)
         \/ /\ ThreeSignals(last.args.publicSignalsJSON)
            /\ SignalAgeMatches(last.args.publicSignalsJSON, last.args.minimumAge)
            /\ SignalFlagSet(last.args.publicSignalsJSON) )
    => last.ok

\* The sub-check an error of the three-signal VerifyAge names.
AgeCheckError == {ErrCircuitMinAge, ErrMinAgeMismatch}
FlagCheckError == {ErrBelowMinAge}

\* C25: the three-signal VerifyAge, given a proof the verifier accepts,
\* accepts only if the minimumAge argument is a positive integer, the first
\* public signal equals it numerically and the third is 1, true, "1" or
\* "true"; when the minimumAge argument is a positive integer and one of the
\* two signal checks fails, the error names the check that failed.
C25_ThreeSignalChecks ==
    ( /\ Called("VerifyAge")
      /\ impl = "lib"
      /\ last.verifier = "true"
      /\ ThreeSignals(last.args.publicSignalsJSON) )
    => LET payload == last.args.publicSignalsJSON
           minimumAge == last.args.minimumAge
       IN /\ last.ok => /\ PositiveAge(minimumAge)
                        /\ SignalAgeMatches(payload, minimumAge)
                        /\ SignalFlagSet(payload)
          /\ (PositiveAge(minimumAge) /\ ~SignalAgeMatches(payload, minimumAge))
                => ~last.ok /\ last.error \in AgeCheckError
          /\ ( /\ PositiveAge(minimumAge)
               /\ SignalAgeMatches(payload, minimumAge)
               /\ ~SignalFlagSet(payload) )
                => ~last.ok /\ last.error \in FlagCheckError

-----------------------------------------------------------------------------
(* Claims about the stages of a VerifyAge attempt                          *)

\* The payload arguments parse: Received can hand them to the verifier.
PayloadParses == last.args.publicSignalsJSON \in ParsedSignals

\* The signals satisfy the checks of the deployed version.
SignalsValid ==
    LET payload == last.args.publicSignalsJSON
    IN IF impl = "index"
       THEN /\ payload.kind = "array"
            /\ Len(payload.items) >= 1
            /\ payload.items[1] = Str(<<"1">>)
       ELSE /\ payload.kind = "array"
            /\ Len(payload.items) >= 3
            /\ SignalAgeMatches(payload, DigitPrefix(last.args.minimumAge))
            /\ toBooleanSignal(payload.items[3])

\* The holder's credential is on the ledger, is not revoked and carries the
\* root hash that was presented.
RootIsBound ==
    /\ HasCredential(ledger, last.userID)
    /\ ~Revoked(ledger, last.userID)
    /\ Credential(ledger, last.userID).credentialHash = last.args.rootHash

\* C26: a VerifyAge attempt passes the stages Received, ProofChecked,
\* SignalsValidated, RootBound, Accepted in this order: the verifier is called
\* only for payloads that parsed; a proof the verifier does not accept is
\* rejected as invalid whatever the signals are; signals that fail are
\* rejected as a signal mismatch whatever the credential is; an attempt is
\* accepted only after the root binding stage has passed; and only an
\* accepted attempt writes to the ledger or emits an event.
C26_StageOrder ==
    Called("VerifyAge") =>
        /\ ~PayloadParses => last.verifier = "not called"
        /\ last.verifier \in {"false", "throws"}
              => ~last.ok /\ last.error \in ProofInvalidError
        /\ (last.verifier = "true" /\ ~SignalsValid)
              => ~last.ok /\ last.error \in SignalMismatchError
        /\ last.ok => last.verifier = "true" /\ SignalsValid /\ RootIsBound
        /\ ~last.ok => NothingWritten /\ last.events = NoEvents

-----------------------------------------------------------------------------
(* Claims about the comparison of root hashes                              *)

HexDigitVal(c) ==
    CASE c \in Digits -> DigitVal(c)
      [] c = "a" -> 10 [] c = "b" -> 11 [] c = "c" -> 12
      [] c = "d" -> 13 [] c = "e" -> 14 [] c = "f" -> 15

RECURSIVE HexValue(_)
HexValue(s) ==
    IF s = <<>> THEN 0
    ELSE 16 * HexValue(SubSeq(s, 1, Len(s) - 1)) + HexDigitVal(s[Len(s)])

\* The integer a root hash denotes: 0x-prefixed hexadecimal, or decimal.
IsHex(s) == Len(s) > 2 /\ s[1] = "0" /\ s[2] = "x"
RootValue(s) == IF IsHex(s) THEN HexValue(SubSeq(s, 3, Len(s))) ELSE DecimalValue(s)

\* C27: the root comparison of VerifyAge normalizes the format: for a holder
\* with a valid credential and an attempt that passes the proof and signal
\* checks, the presented root and the stored credentialHash, one given in
\* hexadecimal and the other in decimal or both in one format, compare equal
\* (the attempt is accepted) exactly when they denote the same integer.
C27_RootFormats ==
    ( /\ Called("VerifyAge")
      /\ last.verifier = "true"
      /\ SignalsValid
      /\ HasCredential(ledger, last.userID)
      /\ ~Revoked(ledger, last.userID) )
    => ( last.ok <=> RootValue(last.args.rootHash)
                        = RootValue(Credential(ledger, last.userID).credentialHash) )

-----------------------------------------------------------------------------
(* Claims about the audit log                                              *)

\* C28: QueryVerifications returns every record stored under the
\* verification namespace and nothing else (no record of VerifyAge, no
\* credential), and changes neither the ledger nor the emitted events.
C28_QueryVerifications ==
    [][ last'.op = "QueryVerifications"
        => /\ last'.ok
           /\ \A k \in DOMAIN ledger : k[1] = "verification" => ledger[k] \in last'.ret
           /\ \A record \in last'.ret :
                 \E k \in DOMAIN ledger : k[1] = "verification" /\ ledger[k] = record
           /\ \A k \in DOMAIN ledger : k[1] # "verification" => ledger[k] \notin last'.ret
           /\ ledger' = ledger
           /\ last'.events = NoEvents ]_vars

\* C28 witness: QueryVerifications returned one record while the ledger holds
\* a record of VerifyProof and a record of VerifyAge.
C28_Witness ==
    /\ Called("QueryVerifications")
    /\ Cardinality(last.ret) = 1
    /\ \E k \in DOMAIN ledger : k[1] = "verification"
    /\ \E k \in DOMAIN ledger : k[1] = "ageVerification"

\* C29: the audit log is append-only: a verification record that exists
\* under a key (namespace, holder, transaction id) is under that key,
\* unchanged, after every step; transaction ids are never used twice.
C29_AppendOnly ==
    [][ /\ \A k \in RecordKeys(ledger) :
              k \in DOMAIN ledger' /\ ledger'[k] = ledger[k]
        /\ \A k \in RecordKeys(ledger') \ RecordKeys(ledger) :
              /\ k = <<k[1], last'.userID, last'.txID>>
              /\ \A j \in DOMAIN ledger : Len(j) = 3 => j[3] # last'.txID ]_vars

\* C29 witness: a second verification of a holder has been committed while
\* the record of an earlier verification of that holder is on the ledger.
C29_Witness ==
    /\ VerificationAttempt
    /\ last.ok
    /\ \E k \in RecordKeys(ledger) : k[2] = last.userID /\ k[3] < last.txID
    /\ \E k \in RecordKeys(ledger) : k[2] = last.userID /\ k[3] = last.txID

-----------------------------------------------------------------------------
(* Claims about transactions in flight together                            *)

\* The transaction the latest step committed or invalidated.
Committing(t) == t \in pending /\ t \notin pending' /\ last'.op = "Commit"

\* C30: of the IssueCredential transactions for one holder that were all
\* simulated while the holder had no credential, at most one commits: a
\* commit is valid only while the holder has no credential and then stores
\* exactly the write set of that transaction; a commit that finds a
\* credential is invalidated by the read conflict and leaves the ledger as
\* it was; and a stored credential is never replaced.
C30_OneIssuerCommits ==
    [][ /\ \A userID \in ConcurrentHolders :
             HasCredential(ledger, userID) =>
                 /\ HasCredential(ledger', userID)
                 /\ Credential(ledger', userID) = Credential(ledger, userID)
        /\ \A t \in pending :
             Committing(t) =>
                 /\ t.credentialHash # <<>>
                 /\ last'.ok = ~HasCredential(ledger, t.userID)
                 /\ last'.ok =>
                        /\ ledger' = t.writes @@ ledger
                        /\ Credential(ledger', t.userID).credentialHash
                               = t.credentialHash
                        /\ DOMAIN ledger' = DOMAIN ledger \cup {credentialKey(t.userID)}
                 /\ ~last'.ok =>
                        /\ ledger' = ledger
                        /\ last'.error = ErrReadConflict
                        /\ last'.events = NoEvents
      ]_vars

\* A transaction was invalidated at its commit, and the credential of its
\* holder is the one another transaction had issued with another hash.
C30_Witness ==
    /\ last.op = "Commit"
    /\ ~last.ok
    /\ last.error = ErrReadConflict
    /\ HasCredential(ledger, last.userID)
    /\ Credential(ledger, last.userID).credentialHash # last.args.credentialHash

-----------------------------------------------------------------------------
(* Claims about replicas and the verification key                          *)

\* Two replicas computed the same outcome of one transaction.
SameOutcome(r1, r2) ==
    /\ r1.ok = r2.ok
    /\ r1.error = r2.error
    /\ r1.writes = r2.writes
    /\ r1.events = r2.events
    /\ r1.ret = r2.ret

\* C31: two replicas that run the same transaction (operation, arguments,
\* transaction id and transaction timestamp) on the same ledger state with
\* different local clocks write the same values and return the same result,
\* for IssueCredential, RevokeCredential, VerifyProof and VerifyAge.
C31_ReplicaDeterminism ==
    \A s1 \in ClockSkews, s2 \in ClockSkews :
        /\ \A userID \in UserIDs, credentialHash \in CredentialHashes, meta \in IssueMeta :
               SameOutcome(
                   IssueCredential(impl, ledger, verificationKeyCache, Ctx(nextTx, s1),
                                   userID, credentialHash, meta[1], meta[2]),
                   IssueCredential(impl, ledger, verificationKeyCache, Ctx(nextTx, s2),
                                   userID, credentialHash, meta[1], meta[2]))
        /\ \A userID \in UserIDs, reason \in Reasons :
               SameOutcome(
                   RevokeCredential(impl, ledger, verificationKeyCache, Ctx(nextTx, s1),
                                    userID, reason),
                   RevokeCredential(impl, ledger, verificationKeyCache, Ctx(nextTx, s2),
                                    userID, reason))
        /\ \A userID \in UserIDs \ {""}, pp \in ProofPayloads, readable \in KeyReadable :
             \A verdict \in VerdictsFor(pp) :
               SameOutcome(
                   VerifyProof(impl, ledger, verificationKeyCache, Ctx(nextTx, s1),
                               userID, pp[1], pp[2], readable, verdict),
                   VerifyProof(impl, ledger, verificationKeyCache, Ctx(nextTx, s2),
                               userID, pp[1], pp[2], readable, verdict))
        /\ \A userID \in UserIDs, minimumAge \in MinimumAges, pp \in AgePayloads,
              readable \in KeyReadable :
             \A verdict \in VerdictsFor(pp) :
               SameOutcome(
                   VerifyAge(impl, ledger, verificationKeyCache, Ctx(nextTx, s1),
                             userID, minimumAge, pp[1], pp[2], readable, verdict),
                   VerifyAge(impl, ledger, verificationKeyCache, Ctx(nextTx, s2),
                             userID, minimumAge, pp[1], pp[2], readable, verdict))

\* The handlers that verify a proof.
VerifyOps == {"VerifyProof", "VerifyAge"}

\* C32: the verification key is loaded once and cached for the life of the
\* process: a cached key stays cached, and with a cached key no verification
\* fails for an unreadable key file, readable or not at that time; a
\* verification that reached the verifier leaves the key cached; a failed
\* read makes the verification fail with no write, no event and no cached
\* key.
C32_KeyCache ==
    [][ /\ verificationKeyCache => verificationKeyCache'
        /\ (last.op = "none" /\ last'.op \in VerifyOps) =>
               /\ verificationKeyCache => last'.error \notin KeyUnavailableError
               /\ last'.verifier # "not called" => verificationKeyCache'
               /\ last'.error \in KeyUnavailableError =>
                      /\ ~last'.ok
                      /\ ledger' = ledger
                      /\ last'.events = NoEvents
                      /\ ~verificationKeyCache'
      ]_vars

\* A verification reached the verifier with a key that an earlier, recorded
\* verification had loaded.
C32_Witness ==
    /\ last.op \in VerifyOps
    /\ last.verifier # "not called"
    /\ verificationKeyCache
    /\ \E k \in RecordKeys(ledger) : k[3] < last.txID

-----------------------------------------------------------------------------
(* Claims about the fields of a stored credential                          *)

\* The keys of the credential namespace.
CredentialKeys(ldg) == {k \in DOMAIN ldg : k[1] = "credential"}

\* C33: VerifyProof and VerifyAge never create, modify or delete a
\* credential entry: after either, accepted or not, the credential
\* namespace holds the keys it held before, each with the value it had.
C33_VerifyKeepsCredentials ==
    [][ (last.op = "none" /\ last'.op \in VerifyOps) =>
            /\ CredentialKeys(ledger') = CredentialKeys(ledger)
            /\ \A k \in CredentialKeys(ledger) : ledger'[k] = ledger[k] ]_vars

\* A verification for a holder with a credential has written its record.
C33_Witness ==
    /\ last.op \in VerifyOps
    /\ last.ok
    /\ HasCredential(ledger, last.userID)
    /\ \E k \in RecordKeys(ledger) : k[2] = last.userID /\ k[3] = last.txID

\* The fields of a credential that RevokeCredential assigns.
RevocationFields == {"valid", "revokedAt", "revocationReason"}

\* C34: the credentialHash, issuer and issuance timestamp of a credential
\* never change after issuance: an accepted IssueCredential stores the
\* credentialHash it was given, every later step keeps the credential, and
\* the only fields a step changes or adds are valid, revokedAt and
\* revocationReason.
C34_IssuedFieldsImmutable ==
    [][ /\ (last.op = "none" /\ last'.op = "IssueCredential" /\ last'.ok) =>
               Credential(ledger', last'.userID).credentialHash
                   = last'.args.credentialHash
        /\ \A u \in Holders :
               HasCredential(ledger, u) =>
                   /\ HasCredential(ledger', u)
                   /\ LET old == Credential(ledger, u)
                          new == Credential(ledger', u)
                      IN /\ new.credentialHash = old.credentialHash
                         /\ new.issuer = old.issuer
                         /\ new.timestamp = old.timestamp
                         /\ \A f \in (DOMAIN old \cup DOMAIN new) \ RevocationFields :
                                f \in DOMAIN old /\ f \in DOMAIN new /\ new[f] = old[f]
      ]_vars

\* A credential was revoked with a reason and still carries the hash and
\* the issuer it was issued with.
C34_Witness ==
    /\ last.op = "RevokeCredential"
    /\ last.ok
    /\ last.args.reason # ""
    /\ LET c == Credential(ledger, last.userID)
       IN /\ ~c.valid
          /\ c.credentialHash \in RootHashes
          /\ c.issuer = "TrustedIssuer"
          /\ c.revocationReason = last.args.reason

\* The latest step was RevokeCredential on a credential that was revoked.
RevokesAgain ==
    /\ last.op = "none"
    /\ last'.op = "RevokeCredential"
    /\ HasCredential(ledger, last'.userID)
    /\ ~Credential(ledger, last'.userID).valid

\* C35: RevokeCredential on a revoked credential succeeds: valid stays
\* false, revokedAt becomes the time of the new transaction, another
\* RevokeCredential event is set, and revocationReason is replaced by a
\* non-empty reason and kept as it was for an empty one.
C35_RevokeAgain ==
    [][ RevokesAgain =>
            LET old == Credential(ledger, last'.userID)
                new == Credential(ledger', last'.userID)
                reason == last'.args.reason
            IN /\ last'.ok
               /\ last'.ret = new
               /\ ~new.valid
               /\ \E skew \in Skews : new.revokedAt = toISOString(last'.txID + skew)
               /\ last'.events = <<Event("RevokeCredential", [userID |-> last'.userID])>>
               /\ reason # "" => new.revocationReason = reason
               /\ reason = "" =>
                      /\ "revocationReason" \in DOMAIN new
                             <=> "revocationReason" \in DOMAIN old
                      /\ "revocationReason" \in DOMAIN old =>
                             new.revocationReason = old.revocationReason
      ]_vars

\* A second revocation without a reason went through, after the first one
\* of an earlier transaction, and the reason of the first is still stored.
C35_Witness ==
    /\ last.op = "RevokeCredential"
    /\ last.ok
    /\ last.args.reason = ""
    /\ LET c == Credential(ledger, last.userID)
       IN /\ "revocationReason" \in DOMAIN c
          /\ c.revocationReason = "fraud"
          /\ c.revokedAt \in {toISOString(last.txID + skew) : skew \in Skews}

-----------------------------------------------------------------------------
(* Claims about the minimumAge argument and the namespaces of the records  *)

\* The minimumAge a record of the single-signal VerifyAge holds.
RecordedMinimumAge(minimumAge) ==
    IF minimumAge = <<>> THEN Num(<<"1", "8">>) ELSE Str(minimumAge)

\* Two outcomes of VerifyAge that differ at most in the minimumAge of the
\* record they write.
SameButMinimumAge(r1, r2) ==
    /\ r1.ok = r2.ok
    /\ r1.error = r2.error
    /\ r1.ret = r2.ret
    /\ r1.events = r2.events
    /\ r1.cache = r2.cache
    /\ DOMAIN r1.writes = DOMAIN r2.writes
    /\ \A k \in DOMAIN r1.writes :
           [r1.writes[k] EXCEPT !.minimumAge = 0] = [r2.writes[k] EXCEPT !.minimumAge = 0]

\* C36: in the single-signal VerifyAge (part_007) the outcome does not
\* depend on minimumAge: two invocations that differ only in minimumAge,
\* absent included, are both accepted or both rejected with the same result,
\* and differ only in the minimumAge of the record, which is the argument,
\* or 18 for an absent one.
C36_MinimumAgeIgnored ==
    impl = "index" =>
        \A userID \in UserIDs, pp \in AgePayloads, readable \in KeyReadable,
           m1 \in MinimumAges, m2 \in MinimumAges :
          \A verdict \in VerdictsFor(pp) :
            LET r1 == VerifyAge(impl, ledger, verificationKeyCache, Ctx(nextTx, 0),
                                userID, m1, pp[1], pp[2], readable, verdict)
                r2 == VerifyAge(impl, ledger, verificationKeyCache, Ctx(nextTx, 0),
                                userID, m2, pp[1], pp[2], readable, verdict)
            IN /\ SameButMinimumAge(r1, r2)
               /\ \A k \in DOMAIN r1.writes :
                      r1.writes[k].minimumAge = RecordedMinimumAge(m1)

\* The single-signal VerifyAge has accepted a call without minimumAge and
\* recorded 18.
C36_Witness ==
    /\ impl = "index"
    /\ last.op = "VerifyAge"
    /\ last.ok
    /\ last.args.minimumAge = <<>>
    /\ ledger[<<"ageVerification", last.userID, last.txID>>].minimumAge
           = Num(<<"1", "8">>)

\* What QueryVerifications would return on a ledger.
QueryResult(ldg) == QueryVerifications(ldg, FALSE).ret

\* C37: the records of VerifyAge are stored under the ageVerification
\* namespace and QueryVerifications never returns them: an accepted
\* VerifyAge adds a key of that namespace and leaves the result of the
\* query as it was, the result of the query grows only by the record of a
\* VerifyProof step, and what a query returns are records of VerifyProof.
C37_AgeRecordsNotQueried ==
    [][ /\ (last.op = "none" /\ last'.op = "VerifyAge") =>
               /\ QueryResult(ledger') = QueryResult(ledger)
               /\ last'.ok =>
                      <<"ageVerification", last'.userID, last'.txID>>
                          \in DOMAIN ledger' \ DOMAIN ledger
        /\ (ledger' # ledger /\ QueryResult(ledger') # QueryResult(ledger)) =>
               /\ last'.op = "VerifyProof"
               /\ QueryResult(ledger')
                      = QueryResult(ledger)
                            \cup {ledger'[<<"verification", last'.userID, last'.txID>>]}
        /\ (last.op = "none" /\ last'.op = "QueryVerifications") =>
               /\ last'.ret = QueryResult(ledger)
               /\ \A record \in last'.ret :
                      "valid" \in DOMAIN record /\ "isOfAge" \notin DOMAIN record
      ]_vars

\* A query has returned the record of a VerifyProof and not the record that
\* a VerifyAge wrote for the same holder.
C37_Witness ==
    /\ last.op = "QueryVerifications"
    /\ \E record \in last.ret : record.userID = "u1"
    /\ \E k \in DOMAIN ledger :
           /\ k[1] = "ageVerification"
           /\ k[2] = "u1"
           /\ ledger[k].isOfAge
           /\ ledger[k] \notin last.ret

-----------------------------------------------------------------------------
(* Claims about the path indices, the self-paired node and the circuits    *)

\* The number whose binary digits are bits, the lowest digit first.
RECURSIVE BinaryValue(_)
BinaryValue(bits) ==
    IF bits = <<>> THEN 0 ELSE Head(bits) + 2 * BinaryValue(Tail(bits))

\* C38: every entry of the pathIndices of a proof that
\* generateMerkleProof(tree, i) returned is 0 or 1, and pathIndices read as
\* a binary number with pathIndices[level] as bit number level is i.
C38_PathIndicesSpellIndex ==
    (MCalled("generateMerkleProof") /\ mlast.ok)
    => LET pathIndices == mlast.ret.pathIndices
       IN /\ \A level \in 0..(Len(pathIndices) - 1) : At(pathIndices, level) \in {0, 1}
          /\ BinaryValue(pathIndices) = mlast.args.leafIndex

\* A proof for the last of four leaves: both path indices are 1.
C38_Witness ==
    /\ MCalled("generateMerkleProof")
    /\ mlast.ok
    /\ Len(mlast.args.leaves) = 4
    /\ mlast.args.leafIndex = 3
    /\ mlast.ret.pathIndices = <<1, 1>>

\* A leaf sequence with a copy of its last leaf added.
LastLeafRepeated(leaves) == Append(leaves, leaves[Len(leaves)])

\* C39: buildMerkleTree gives an odd-length leaf sequence of more than one
\* leaf the root it gives the sequence extended by a copy of its last leaf,
\* so that two trees of different leaf counts have one root.
C39_SelfPairedRoot ==
    (/\ MCalled("buildMerkleTree")
     /\ mlast.ok
     /\ Len(mlast.args.leaves) > 1
     /\ Len(mlast.args.leaves) % 2 = 1)
    => LET extended == buildMerkleTree(poseidonInstance,
                                       LastLeafRepeated(mlast.args.leaves))
       IN /\ extended.ok
          /\ extended.ret.root = mlast.ret.root
          /\ Len(At(extended.ret.layers, 0)) = Len(At(mlast.ret.layers, 0)) + 1

\* A tree of three leaves whose last leaf differs from the first.
C39_Witness ==
    /\ MCalled("buildMerkleTree")
    /\ mlast.ok
    /\ Len(mlast.args.leaves) = 3
    /\ Denotes(At(mlast.args.leaves, 2)) # Denotes(At(mlast.args.leaves, 0))

-----------------------------------------------------------------------------
(* The age-with-Merkle circuits (src/unnamed/part_002, part_003)           *)
(*                                                                         *)
(* The signals of a circuit are elements of a prime field and its          *)
(* constraints are arithmetic in that field.  So that the arithmetic can   *)
(* be carried out, the field elements of merkle-utils (integers and        *)
(* Poseidon terms) are interpreted in the integers modulo FieldSize, with  *)
(* two fixed functions in the place of Poseidon(1) and Poseidon(2); the    *)
(* Poseidon of circomlib is taken to be the Poseidon of circomlibjs.       *)

FieldSize == 11

MIN_ADULT_DOB == 20061124

PoseidonValue1(x) == (x * x + 2 * x + 3) % FieldSize
PoseidonValue2(l, r) == (l * l + 3 * r + 1) % FieldSize

\* The value of a field element of merkle-utils in the small field.
RECURSIVE FieldValue(_)
FieldValue(fe) ==
    CASE fe.k = "int" -> BytesValue(fe.b) % FieldSize
      [] fe.k = "poseidon1" -> PoseidonValue1(FieldValue(fe.x))
      [] fe.k = "poseidon2" -> PoseidonValue2(FieldValue(fe.l), FieldValue(fe.r))

FieldAdd(a, b) == (a + b) % FieldSize
FieldSub(a, b) == (a + FieldSize - b) % FieldSize
FieldMul(a, b) == (a * b) % FieldSize

\* LessEqThan(32) on the date of birth.
IsAdult(dob) == IF BytesValue(dob.b) <= MIN_ADULT_DOB THEN 1 ELSE 0

\* Faulty variant of AgeWithMerkle: index 0 puts the running hash on the
\* right.
AgeWithMerkleSwapped(dob, merklePathElements, merklePathIndices) ==
    LET dobLeafHash == PoseidonValue1(FieldValue(dob))
        e0 == FieldValue(merklePathElements[1])
        e1 == FieldValue(merklePathElements[2])
        i0 == merklePathIndices[1]
        i1 == merklePathIndices[2]
        level0Hash ==
            PoseidonValue2(
                FieldAdd(FieldMul(e0, FieldSub(1, i0)), FieldMul(dobLeafHash, i0)),
                FieldAdd(FieldMul(dobLeafHash, FieldSub(1, i0)), FieldMul(e0, i0)))
    IN [isAdult |-> IsAdult(dob),
        rootHash |->
            PoseidonValue2(
                FieldAdd(FieldMul(e1, FieldSub(1, i1)), FieldMul(level0Hash, i1)),
                FieldAdd(FieldMul(level0Hash, FieldSub(1, i1)), FieldMul(e1, i1)))]

\* template AgeWithMerkle of part_003: each input of a hasher is
\* hash * (1 - index) + sibling * index, or the other way round.
AgeWithMerkle(dob, merklePathElements, merklePathIndices) ==
    LET dobLeafHash == PoseidonValue1(FieldValue(dob))
        e0 == FieldValue(merklePathElements[1])
        e1 == FieldValue(merklePathElements[2])
        i0 == merklePathIndices[1]
        i1 == merklePathIndices[2]
        level0Hash ==
            PoseidonValue2(
                FieldAdd(FieldMul(dobLeafHash, FieldSub(1, i0)), FieldMul(e0, i0)),
                FieldAdd(FieldMul(e0, FieldSub(1, i0)), FieldMul(dobLeafHash, i0)))
    IN [isAdult |-> IsAdult(dob),
        rootHash |->
            PoseidonValue2(
                FieldAdd(FieldMul(level0Hash, FieldSub(1, i1)), FieldMul(e1, i1)),
                FieldAdd(FieldMul(e1, FieldSub(1, i1)), FieldMul(level0Hash, i1)))]

\* template AgeWithMerkle of part_002: each input of a hasher is
\* index * (sibling - hash) + hash, or the other way round.
AgeWithMerkleMux(dob, merklePathElements, merklePathIndices) ==
    LET dobHasher == PoseidonValue1(FieldValue(dob))
        e0 == FieldValue(merklePathElements[1])
        e1 == FieldValue(merklePathElements[2])
        i0 == merklePathIndices[1]
        i1 == merklePathIndices[2]
        level0Left == FieldAdd(FieldMul(i0, FieldSub(e0, dobHasher)), dobHasher)
        level0Right == FieldAdd(FieldMul(i0, FieldSub(dobHasher, e0)), e0)
        level0Hasher == PoseidonValue2(level0Left, level0Right)
        level1Left == FieldAdd(FieldMul(i1, FieldSub(e1, level0Hasher)), level0Hasher)
        level1Right == FieldAdd(FieldMul(i1, FieldSub(level0Hasher, e1)), e1)
    IN [isAdult |-> IsAdult(dob),
        rootHash |-> PoseidonValue2(level1Left, level1Right)]

CircuitFiles == {"part_002", "part_003"}

\* Dates of birth of the inputs of a circuit, as decimal strings.
DobValues ==
    { Str(<<"7">>), Str(<<"1", "9", "9", "0", "0", "1", "0", "1">>),
      Str(<<"2", "0", "1", "0", "0", "1", "0", "1">>) }

\* The proofs a prover hands to a circuit: those of the trees with two
\* levels below the root, as generated, with an index flipped or with a
\* sibling replaced.
CircuitProofs ==
    UNION { { Presented(leaves, leafIndex, tamper).proof :
                leafIndex \in 0..(Len(leaves) - 1),
                tamper \in {t \in Tamperings(2) :
                               t.kind \in {"none", "flip", "sibling"}} } :
            leaves \in {l \in GoodLeafSeqs : Len(l) \in {3, 4}} }

\* The witness of a circuit is computed for a date of birth and a proof.
DoAgeWithMerkle ==
    /\ MIdle
    /\ \E file \in CircuitFiles, dob \in DobValues, proof \in CircuitProofs :
         LET elements == [i \in 1..2 |-> BigInt(proof.pathElements[i])]
         IN MInvoke("AgeWithMerkle", [file |-> file, dob |-> dob, proof |-> proof],
                    MReturn(IF file = "part_002"
                            THEN AgeWithMerkleMux(BigInt(dob), elements,
                                                  proof.pathIndices)
                            ELSE AgeWithMerkle(BigInt(dob), elements,
                                               proof.pathIndices),
                            poseidonInstance))

CircuitNext ==
    \/ DoAgeWithMerkle
    \/ MerkleReturn

CircuitSpec == MerkleInit /\ [][CircuitNext]_vars

-----------------------------------------------------------------------------
(* Claims about the circuits                                               *)

\* C40: for a proof of two levels with path indices 0 or 1, the root a
\* circuit computes from the date of birth, merklePathElements and
\* merklePathIndices is the value verifyMerkleProof reaches when it replays
\* the proof from the leaf hash of the date of birth; both circuits compute
\* that root; index 0 puts the running hash on the left and index 1 on the
\* right.
C40_CircuitReplaysProof ==
    MCalled("AgeWithMerkle")
    => LET dob == mlast.args.dob
           proof == mlast.args.proof
           elements == [i \in 1..2 |-> BigInt(proof.pathElements[i])]
           replayed == Replay(poseidonHash(dob), proof.pathElements,
                              proof.pathIndices, 0)
           leaf == FieldValue(BigInt(poseidonHash(dob)))
           e0 == FieldValue(elements[1])
           e1 == FieldValue(elements[2])
           level0 == IF proof.pathIndices[1] = 0 THEN PoseidonValue2(leaf, e0)
                     ELSE PoseidonValue2(e0, leaf)
       IN /\ \A i \in 1..2 : proof.pathIndices[i] \in {0, 1}
          /\ mlast.ret.rootHash = FieldValue(BigInt(replayed))
          /\ AgeWithMerkle(BigInt(dob), elements, proof.pathIndices).rootHash
                 = AgeWithMerkleMux(BigInt(dob), elements, proof.pathIndices).rootHash
          /\ mlast.ret.rootHash =
                 IF proof.pathIndices[2] = 0 THEN PoseidonValue2(level0, e1)
                 ELSE PoseidonValue2(e1, level0)

\* The circuit of part_003 computed the root for a proof whose leaf is a
\* right child at the first level and a left child at the second.
C40_Witness ==
    /\ MCalled("AgeWithMerkle")
    /\ mlast.args.file = "part_003"
    /\ mlast.args.proof.pathIndices = <<1, 0>>
    /\ mlast.args.dob = Str(<<"7">>)
    /\ mlast.ret.isAdult = 1

=============================================================================
